---------------------------- MODULE Spec2Model ----------------------------
(***************************************************************************)
(* Japanese Glossary Generator: the batch enrichment pipeline.             *)
(*                                                                         *)
(*   SpecLookup  the External Lookup Gateway (api_client.py) run by        *)
(*               several worker threads, statement by statement            *)
(*   SpecJob     one batch job (processor.py, stats.py): the orchestrator, *)
(*               its record tasks on the outer pool, the progress counters *)
(*               and the cancellation flag                                 *)
(*   SpecSession the job together with the progress dialog being closed    *)
(*               and the command being started again (dialogs.py)          *)
(*   SpecPools   the job with the lookup executor of every record task     *)
(*               (glossary_generator.py) followed lookup by lookup         *)
(*   SpecCache   the lookup cache over a session (cache.py, __init__.py):  *)
(*               profile switches, settings, clears, timer flushes and     *)
(*               batch jobs whose lookups run one at a time                *)
(*   SpecTimer   the periodic flush timer under profile switches and       *)
(*               accepted settings                                         *)
(*   SpecPacing  the gateway threads while the pause per API call is       *)
(*               changed in the settings                                   *)
(*   SpecLog     the log file (logger.py) written before and during jobs   *)
(*               and cleared from the log viewer                           *)
(*   SpecText    the text functions (text_utils.py) on texts of code       *)
(*               points around the ends of the character classes           *)
(*   SpecAssemble one call of generate_glossary_data with its lookup       *)
(*               executor, the lookups collected in any order              *)
(*   SpecAbort   the job with executor.submit able to raise, and the       *)
(*               completion handler                                        *)
(*   SpecFlush   one call of save_api_cache with its size test (cache.py)  *)
(*   SpecPoolsFair  SpecPools with batches of two and three records, under *)
(*               weak fairness of the program's steps                      *)
(*   SpecPoll    job after job in one session, with the poller of the      *)
(*               progress dialog (dialogs.py)                              *)
(***************************************************************************)
EXTENDS Naturals, Integers, Sequences, FiniteSets, TLC

(***************************************************************************)
(* Bounds of the model.                                                    *)
(***************************************************************************)
NumThreads == 2       \* lookup worker threads of the gateway specification
MaxLookups == 2       \* lookups started in one behaviour of the gateway specification
NumNotes == 3         \* records selected for a job
MaxWorkers == 2       \* config['performance']['max_workers'] of the model
ApiCallWorkers == 2   \* config['performance']['api_call_workers'] of the model

VARIABLES
  cache_enabled,      \* config['cache']['cache_enabled']
  pause_per_api_call_ms,  \* config['performance']['pause_per_api_call_ms']
  global_api_cache,   \* the dict api_client.py consults: cache key -> value
  cache_hits,         \* global_stats["cache_hits"]
  api_calls,          \* global_stats["api_calls"]
  lk,                 \* per lookup thread: position in the gateway function and its locals
  key_lookups,        \* history: lookups started, per cache key
  key_api_incs,       \* history: executions of `global_stats["api_calls"] += 1`, per cache key
  key_hist,           \* history, per cache key: "overlap" once a lookup of the key started
                      \*   while another lookup of it was in flight, "failed" once a network
                      \*   call for it returned None, "disabled" once a lookup of it tested
                      \*   or stored while caching was disabled
  solo                \* history: the lookup that started while no other was in flight, with
                      \*          the counters it found

gateway_vars == <<cache_enabled, pause_per_api_call_ms, global_api_cache, cache_hits, api_calls, lk,
                  key_lookups, key_api_incs, key_hist, solo>>

VARIABLES
  is_cancelled,       \* global_stats["is_cancelled"]
  total_notes,        \* global_stats["total_notes"]
  processed_notes,    \* global_stats["processed_notes"]
  updated_notes,      \* global_stats["updated_notes"]
  unchanged_notes,    \* global_stats["unchanged_notes"]
  empty_notes,        \* global_stats["empty_notes"]
  error_notes,        \* global_stats["error_notes"]
  job_pc,             \* position of the background task in _run_batch_glossary_process_background
  batch_size,         \* its local batch_size (line 79), from config['performance']
  batch_index,        \* its loop variable
  task,               \* per record: position of its _process_note_task and what became of it;
                      \*   html is its local glossary_html while the task or its result holds it
  note_target,        \* record store: content of the target field of each record
  flushes,            \* history: calls of save_api_cache() made by the job
  cancel_batch,       \* history: {i} once cancellation was requested with batch i in flight
  dialog_open,        \* mw.glossary_stats_dialog is shown (application modal)
  other_job,          \* a further background task started while the job is in flight
  stats_dialog,       \* the poller of the ProcessingStatsDialog last created: its timer,
                      \*   and what update_stats_display found ("complete": timer stopped,
                      \*   cancel controls disabled, label "Processing Complete!")
  pool                \* per record: the lookup executor of its generate_glossary_data call

stats_vars == <<is_cancelled, total_notes, processed_notes, updated_notes,
                unchanged_notes, empty_notes, error_notes>>
job_vars == <<job_pc, batch_size, batch_index, task, note_target, flushes, cancel_batch>>

ui_vars == <<dialog_open, other_job, stats_dialog>>

VARIABLES
  module_cache,       \* the dict cache.py's global_api_cache names (cache.py:16): the one
                      \*   load_api_cache, save_api_cache and clear_api_cache work on
  same_dict,          \* api_client's global_api_cache and cache.py's are one dict object
  api_client_imported,\* api_client.py:9 has run: the gateway's name is bound
  cache_file,         \* api_cache.json
  saver,              \* per thread that can run save_api_cache: its position in it
  cache_job,          \* the job as the cache sees it: lookups of a batch, then its flush
  profile_open,       \* between on_profile_opened and on_profile_closing
  global_cache_timer, \* cache.py:17  the QTimer, once created
  orphan_timers,      \* active timers that global_cache_timer no longer names
  cache_save_interval_minutes,  \* config['cache']['cache_save_interval_minutes']
  last_main_op,       \* history: the last handler the main thread ran
  gateway_stored,     \* history: keys the gateway stored since the last clear
  fresh,              \* history, per key: cleared and not stored or loaded since
  last_load         \* history: the file the last load_api_cache call found, and
                    \* whether an exception left the call

cache_vars == <<module_cache, same_dict, api_client_imported, cache_file, saver, cache_job,
                profile_open, global_cache_timer, orphan_timers,
                cache_save_interval_minutes, last_main_op, gateway_stored, fresh,
                last_load>>

VARIABLES
  log_file_mode,      \* logger.py:13  the mode write_log opens the log file with
  log,                \* the lines of the log file; a line is the number of jobs that had
                      \*   started when it was written
  log_epoch,          \* history: the number of jobs started so far
  validation,         \* history: how the last call of the batch command ended
  asm,                \* glossary_generator.py:12-96  one call of generate_glossary_data: its
                      \*   text, settings, executor, collected results and markup
  save_call           \* cache.py:43-66  one call of save_api_cache with the size test
                      \*   followed: the settings, the file it left and what it logged

log_vars == <<log_file_mode, log, log_epoch>>
session_vars == <<cache_vars, log_vars, validation, asm, save_call>>

vars == <<gateway_vars, stats_vars, job_vars, ui_vars, pool, session_vars>>

(***************************************************************************)
(* Values.                                                                 *)
(***************************************************************************)
LookupThreads == 1..NumThreads
KanaTexts == {"ka"}     \* texts sent to the romanization service
KanjiChars == {"nichi"} \* characters sent to the kanji dictionary service

\* api_client.py:15  cache_key = f"romaji2kana_{endpoint}_{text}"
RomajiKey(endpoint, text) == <<"romaji2kana_", endpoint, text>>
\* api_client.py:51  cache_key = f"kanji_{kanji_char}"
KanjiKey(kanji_char) == <<"kanji_", kanji_char>>

ROMAJI_ENDPOINT == "/v1/to/romaji"
Keys == {RomajiKey(ROMAJI_ENDPOINT, x) : x \in KanaTexts} \cup {KanjiKey(x) : x \in KanjiChars}

NoEntry == "absent"   \* the key is not in the dict
None == "None"        \* Python's None
Answer == "answer"    \* a non-null body returned by the remote service
\* the lookup has not read the pause setting
NotRead == "not read"
NoKey == <<>>
EmptyCache == [k \in Keys |-> NoEntry]   \* {}

\* api_cache.json: no file, a file holding a JSON object, or a file that json.load
\* rejects (empty, cut short, damaged)
NoFile == [state |-> "absent", data |-> EmptyCache]
BadFile == [state |-> "invalid", data |-> EmptyCache]
GoodFile(mapping) == [state |-> "valid", data |-> mapping]

\* cache.py:17  global_cache_timer = None
NoTimer == [exists |-> FALSE, active |-> FALSE, interval |-> 0]
\* no load_api_cache call yet
NoLoad == [from |-> "none", raised |-> FALSE]
IdleSaver == [pc |-> "idle", before |-> NoFile, by |-> "none"]
SaverThreads == {"main", "job"}

IdleLookup == [pc |-> "idle", key |-> NoKey, tmp |-> 0, res |-> None, path |-> "none",
               w_hits |-> 0, w_api |-> 0, nets |-> 0, delays |-> 0, pause_read |-> NotRead]
NoSolo == [t |-> 0, hits |-> 0, api |-> 0]

InFlight(t) == lk[t].pc \notin {"idle", "done"}
Attempts == LET RECURSIVE Sum(_)
                Sum(S) == IF S = {} THEN 0
                          ELSE LET k == CHOOSE x \in S : TRUE
                               IN key_lookups[k] + Sum(S \ {k})
            IN Sum(Keys)

Cap2(n) == IF n >= 2 THEN 2 ELSE n + 1

(***************************************************************************)
(* The gateway: _call_romaji2kana_api_direct and get_kanji_info.           *)
(* Both functions have the same body up to the cache key, so they share    *)
(* the steps after the key is computed.                                    *)
(***************************************************************************)
\* entry of a gateway function in thread t with cache key k (lines 15 / 51)
BeginLookup(t, k) ==
  /\ api_client_imported
  /\ lk[t].pc = "idle"
  /\ Attempts < MaxLookups
  /\ lk' = [lk EXCEPT ![t] = [IdleLookup EXCEPT !.pc = "check", !.key = k]]
  /\ key_lookups' = [key_lookups EXCEPT ![k] = @ + 1]
  /\ key_hist' = [key_hist EXCEPT ![k] =
                     IF \E u \in LookupThreads \ {t} : InFlight(u) /\ lk[u].key = k
                     THEN @ \cup {"overlap"} ELSE @]
  /\ solo' = IF \A u \in LookupThreads \ {t} : ~InFlight(u)
             THEN [t |-> t, hits |-> cache_hits, api |-> api_calls]
             ELSE NoSolo
  /\ UNCHANGED <<cache_enabled, global_api_cache, cache_hits, api_calls, key_api_incs>>
  /\ UNCHANGED <<pause_per_api_call_ms, session_vars, pool, stats_vars, job_vars, ui_vars>>

\* api_client.py:84-86  get_romaji_for_text -> _call_romaji2kana_api_direct("/v1/to/romaji", text)
get_romaji_for_text(t, text) == BeginLookup(t, RomajiKey(ROMAJI_ENDPOINT, text))

\* api_client.py:49-51
get_kanji_info(t, kanji_char) == BeginLookup(t, KanjiKey(kanji_char))

\* lines 17 / 53: the test that routes the lookup
CacheHit(k) == cache_enabled /\ global_api_cache[k] # NoEntry

\* lines 17 / 53: if config['cache']['cache_enabled'] and cache_key in global_api_cache
CheckCache(t) ==
  /\ lk[t].pc = "check"
  /\ lk' = [lk EXCEPT ![t] = [@ EXCEPT
               !.pc = IF CacheHit(lk[t].key) THEN "hit_load" ELSE "api_load",
               !.path = IF CacheHit(lk[t].key) THEN "hit" ELSE "miss"]]
  /\ key_hist' = [key_hist EXCEPT ![lk[t].key] =
                     IF cache_enabled THEN @ ELSE @ \cup {"disabled"}]
  /\ UNCHANGED <<cache_enabled, global_api_cache, cache_hits, api_calls,
                 key_lookups, key_api_incs, solo>>
  /\ UNCHANGED <<pause_per_api_call_ms, session_vars, pool, stats_vars, job_vars, ui_vars>>

\* lines 18 / 54, first half of `global_stats["cache_hits"] += 1`: the read
HitLoad(t) ==
  /\ lk[t].pc = "hit_load"
  /\ lk' = [lk EXCEPT ![t] = [@ EXCEPT !.pc = "hit_store", !.tmp = cache_hits]]
  /\ UNCHANGED <<cache_enabled, global_api_cache, cache_hits, api_calls,
                 key_lookups, key_api_incs, key_hist, solo>>
  /\ UNCHANGED <<pause_per_api_call_ms, session_vars, pool, stats_vars, job_vars, ui_vars>>

\* mutant of HitStore: the hit path bumps the api_calls counter instead
HitStoreCountsApiCall(t) ==
  /\ lk[t].pc = "hit_store"
  /\ api_calls' = api_calls + 1
  /\ lk' = [lk EXCEPT ![t] = [@ EXCEPT !.pc = "done", !.tmp = 0,
                                       !.res = global_api_cache[lk[t].key],
                                       !.w_api = Cap2(@)]]
  /\ UNCHANGED <<cache_enabled, global_api_cache, cache_hits,
                 key_lookups, key_api_incs, key_hist, solo>>
  /\ UNCHANGED <<pause_per_api_call_ms, session_vars, pool, stats_vars, job_vars, ui_vars>>

\* lines 18-19 / 54-55, second half: the write, then return global_api_cache[cache_key]
HitStore(t) ==
  /\ lk[t].pc = "hit_store"
  /\ cache_hits' = lk[t].tmp + 1
  /\ lk' = [lk EXCEPT ![t] = [@ EXCEPT !.pc = "done", !.tmp = 0,
                                       !.res = global_api_cache[lk[t].key],
                                       !.w_hits = Cap2(@)]]
  /\ UNCHANGED <<cache_enabled, global_api_cache, api_calls,
                 key_lookups, key_api_incs, key_hist, solo>>
  /\ UNCHANGED <<pause_per_api_call_ms, session_vars, pool, stats_vars, job_vars, ui_vars>>

\* lines 21 / 57, first half of `global_stats["api_calls"] += 1`: the read
ApiLoad(t) ==
  /\ lk[t].pc = "api_load"
  /\ lk' = [lk EXCEPT ![t] = [@ EXCEPT !.pc = "api_store", !.tmp = api_calls]]
  /\ UNCHANGED <<cache_enabled, global_api_cache, cache_hits, api_calls,
                 key_lookups, key_api_incs, key_hist, solo>>
  /\ UNCHANGED <<pause_per_api_call_ms, session_vars, pool, stats_vars, job_vars, ui_vars>>

\* lines 21 / 57, second half: the write
ApiStore(t) ==
  /\ lk[t].pc = "api_store"
  /\ api_calls' = lk[t].tmp + 1
  /\ lk' = [lk EXCEPT ![t] = [@ EXCEPT !.pc = "pace", !.tmp = 0, !.w_api = Cap2(@)]]
  /\ key_api_incs' = [key_api_incs EXCEPT ![lk[t].key] = @ + 1]
  /\ UNCHANGED <<cache_enabled, global_api_cache, cache_hits,
                 key_lookups, key_hist, solo>>
  /\ UNCHANGED <<pause_per_api_call_ms, session_vars, pool, stats_vars, job_vars, ui_vars>>

\* mutant of DelayDue: the pause is skipped
DelayNever(pause) == FALSE

\* lines 37 / 72: if config['performance']['pause_per_api_call_ms'] > 0
DelayDue(pause) == pause > 0

\* lines 36-38 / 71-73, in _call_romaji2kana_api_no_cache / _get_kanji_info_no_cache:
\* the pause setting is read and, when positive, the thread sleeps
PaceDelay(t) ==
  /\ lk[t].pc = "pace"
  /\ lk' = [lk EXCEPT ![t] = [@ EXCEPT
               !.pc = "network",
               !.pause_read = pause_per_api_call_ms,
               !.delays = IF DelayDue(pause_per_api_call_ms) THEN Cap2(@) ELSE @]]
  /\ UNCHANGED <<cache_enabled, global_api_cache, cache_hits, api_calls,
                 key_lookups, key_api_incs, key_hist, solo>>
  /\ UNCHANGED <<pause_per_api_call_ms, session_vars, pool, stats_vars, job_vars, ui_vars>>

\* what requests.get, raise_for_status and response.json() can do (lines 40-42 / 75-77):
\* no answer within 10 s, a status outside 2xx, a body that is not JSON or is the
\* JSON null, or an answer
NetworkOutcomes == {"timeout", "http_error", "malformed_body", "null_body", "ok"}

\* lines 42-47 / 77-82: the parsed answer, or None after the except clause
ResultOf(outcome) == IF outcome = "ok" THEN Answer ELSE None

\* mutant of Raises: a timeout is not caught
RaisesOnTimeout(outcome) == outcome = "timeout"

\* lines 45-46 / 80-81: `except Exception` catches every failure of the call
Raises(outcome) == FALSE

\* lines 22 / 58 with 40-47 / 75-82: the network call; any failure is caught and yields None
NetworkCall(t) ==
  /\ lk[t].pc = "network"
  /\ \E outcome \in NetworkOutcomes :
       /\ lk' = [lk EXCEPT ![t] = [@ EXCEPT
                    !.pc = IF Raises(outcome) THEN "raised" ELSE "store",
                    !.res = ResultOf(outcome),
                    !.nets = Cap2(@)]]
       /\ key_hist' = [key_hist EXCEPT ![lk[t].key] =
                          IF ResultOf(outcome) = None THEN @ \cup {"failed"} ELSE @]
  /\ UNCHANGED <<cache_enabled, global_api_cache, cache_hits, api_calls,
                 key_lookups, key_api_incs, solo>>
  /\ UNCHANGED <<pause_per_api_call_ms, session_vars, pool, stats_vars, job_vars, ui_vars>>

\* mutant of ShouldStore: the None test dropped
ShouldStoreAlways(result) == cache_enabled

\* mutant of ShouldStore: the None test inverted
ShouldStoreInverted(result) == result = None /\ cache_enabled

\* lines 24 / 60: if result is not None and config['cache']['cache_enabled']
ShouldStore(result) == result # None /\ cache_enabled

\* lines 24-27 / 60-63: store the result, return it
StoreResult(t) ==
  /\ lk[t].pc = "store"
  /\ global_api_cache' = IF ShouldStore(lk[t].res)
                         THEN [global_api_cache EXCEPT ![lk[t].key] = lk[t].res]
                         ELSE global_api_cache
  /\ key_hist' = [key_hist EXCEPT ![lk[t].key] =
                     IF cache_enabled THEN @ ELSE @ \cup {"disabled"}]
  /\ module_cache' = IF ShouldStore(lk[t].res) /\ same_dict
                     THEN [module_cache EXCEPT ![lk[t].key] = lk[t].res]
                     ELSE module_cache
  /\ gateway_stored' = IF ShouldStore(lk[t].res)
                       THEN gateway_stored \cup {lk[t].key} ELSE gateway_stored
  /\ fresh' = IF ShouldStore(lk[t].res) THEN [fresh EXCEPT ![lk[t].key] = FALSE] ELSE fresh
  /\ lk' = [lk EXCEPT ![t] = [@ EXCEPT !.pc = "done"]]
  /\ UNCHANGED <<cache_enabled, cache_hits, api_calls, key_lookups, key_api_incs, solo>>
  /\ UNCHANGED <<same_dict, api_client_imported, cache_file, saver, cache_job,
                 profile_open, global_cache_timer, orphan_timers,
                 cache_save_interval_minutes, last_main_op, last_load>>
  /\ UNCHANGED <<pause_per_api_call_ms, log_vars, validation, asm, save_call, pool, stats_vars, job_vars, ui_vars>>

\* the caller takes the returned value; the thread is free for the next lookup
ReturnLookup(t) ==
  /\ lk[t].pc = "done"
  /\ lk' = [lk EXCEPT ![t] = IdleLookup]
  /\ solo' = IF solo.t = t THEN NoSolo ELSE solo
  /\ UNCHANGED <<cache_enabled, global_api_cache, cache_hits, api_calls,
                 key_lookups, key_api_incs, key_hist>>
  /\ UNCHANGED <<pause_per_api_call_ms, session_vars, pool, stats_vars, job_vars, ui_vars>>

(***************************************************************************)
(* The lookup cache (cache.py) and the handlers that drive it.             *)
(***************************************************************************)
\* the values the interval spin box offers (dialogs.py:235), in minutes: off, the
\* default of config.py:35, and another
Intervals == {0, 15, 30}
\* the values of the pause spin box (dialogs.py:208): off, and the default of config.py:30
PauseValues == {0, 50}
IntervalMs(minutes) == minutes * 60 * 1000       \* cache.py:90

\* the main thread runs one handler at a time
MainFree == saver["main"].pc = "idle"

\* the state of the cache once a profile is open with no cache file and the default
\* settings, and the gateway module has been imported
InitCacheVars ==
  /\ module_cache = EmptyCache
  /\ same_dict = TRUE
  /\ api_client_imported = TRUE
  /\ cache_file = NoFile
  /\ saver = [th \in SaverThreads |-> IdleSaver]
  /\ cache_job = "none"
  /\ profile_open = TRUE
  /\ cache_save_interval_minutes = 15
  /\ global_cache_timer = [exists |-> TRUE, active |-> TRUE, interval |-> IntervalMs(15)]
  /\ orphan_timers = 0
  /\ last_main_op = "schedule"
  /\ gateway_stored = {}
  /\ fresh = [k \in Keys |-> FALSE]
  /\ last_load = [from |-> "absent", raised |-> FALSE]

\* `global global_api_cache; global_api_cache = ...` in cache.py (lines 25, 31, 35, 38,
\* 41, 71) binds cache.py's name to a new dict.  api_client.py:9 copied the binding
\* when it was imported, so from then on the gateway keeps the dict it has.
RebindModuleCache(mapping) ==
  /\ module_cache' = mapping
  /\ IF api_client_imported
     THEN same_dict' = FALSE /\ UNCHANGED global_api_cache
     ELSE global_api_cache' = mapping /\ UNCHANGED same_dict

\* mutant of LoadRaises: the read of a damaged file is not guarded
LoadRaisesOnBadFile(file) == cache_enabled /\ file.state = "invalid"

\* cache.py:29-38  every exception of the read is caught
LoadRaises(file) == FALSE

\* cache.py:19-41  what load_api_cache binds global_api_cache to
LoadedMapping(file) ==
  IF cache_enabled /\ file.state = "valid" THEN file.data ELSE EmptyCache

\* cache.py:19-41  load_api_cache
load_api_cache ==
  /\ last_load' = [from |-> IF cache_enabled THEN cache_file.state ELSE "off",
                   raised |-> LoadRaises(cache_file)]
  /\ IF LoadRaises(cache_file)
     THEN UNCHANGED <<module_cache, global_api_cache, same_dict>>
     ELSE RebindModuleCache(LoadedMapping(cache_file))
  /\ fresh' = [k \in Keys |-> FALSE]

\* mutant of NeedsNewTimer: a timer is created at every call
AlwaysNewTimer == TRUE

\* cache.py:92  if global_cache_timer is None
NeedsNewTimer == ~global_cache_timer.exists

\* cache.py:80-98  start_periodic_cache_save_timer, with the settings it reads
start_periodic_cache_save_timer(enabled, minutes) ==
  IF ~enabled \/ minutes <= 0
  THEN /\ global_cache_timer' = [global_cache_timer EXCEPT !.active = FALSE]
       /\ UNCHANGED orphan_timers
  ELSE LET tm == IF NeedsNewTimer
                 THEN [exists |-> TRUE, active |-> FALSE, interval |-> 0]
                 ELSE global_cache_timer
       IN /\ global_cache_timer' =
               IF ~tm.active \/ tm.interval # IntervalMs(minutes)
               THEN [tm EXCEPT !.active = TRUE, !.interval = IntervalMs(minutes)]
               ELSE tm
          /\ orphan_timers' = IF NeedsNewTimer /\ global_cache_timer.active
                              THEN Cap2(orphan_timers) ELSE orphan_timers

\* cache.py:100-105  stop_periodic_cache_save_timer
stop_periodic_cache_save_timer ==
  global_cache_timer' = [global_cache_timer EXCEPT !.active = FALSE]

\* __init__.py:60-64  on_profile_opened: load_api_cache(), start_periodic_cache_save_timer()
on_profile_opened ==
  /\ MainFree
  /\ ~profile_open
  /\ load_api_cache
  /\ start_periodic_cache_save_timer(cache_enabled, cache_save_interval_minutes)
  /\ profile_open' = TRUE
  /\ last_main_op' = "schedule"
  /\ UNCHANGED <<cache_enabled, cache_hits, api_calls, lk, key_lookups, key_api_incs,
                 key_hist, solo>>
  /\ UNCHANGED <<api_client_imported, cache_file, saver, cache_job,
                 cache_save_interval_minutes, gateway_stored>>
  /\ UNCHANGED <<pause_per_api_call_ms, log_vars, validation, asm, save_call, pool, stats_vars, job_vars, ui_vars>>

\* cache.py:43-50  save_api_cache up to open(CACHE_FILE_PATH, "w"), which empties the
\* file; with caching disabled the function returns before it
SaveOpen(th, by) ==
  /\ saver[th].pc = "idle"
  /\ IF cache_enabled
     THEN /\ cache_file' = BadFile
          /\ saver' = [saver EXCEPT ![th] = [pc |-> "dump", before |-> cache_file, by |-> by]]
     ELSE /\ UNCHANGED cache_file
          /\ saver' = [saver EXCEPT ![th] = [pc |-> "skip", before |-> cache_file, by |-> by]]

\* cache.py:51-66  json.dump(global_api_cache, f): the file holds the mapping, or the
\* write raises part of the way (an I/O error, or the dict changing size under the
\* iteration) and the exception is logged
SaveDump(th, ok) ==
  /\ saver[th].pc \in {"dump", "skip"}
  /\ cache_file' = IF saver[th].pc = "skip" THEN cache_file
                   ELSE IF ok THEN GoodFile(module_cache) ELSE BadFile
  /\ saver' = [saver EXCEPT ![th] = IdleSaver]

\* __init__.py:66-70  on_profile_closing: save_api_cache() ...
on_profile_closing ==
  /\ MainFree
  /\ profile_open
  /\ cache_job = "none"
  /\ SaveOpen("main", "closing")
  /\ last_main_op' = "other"
  /\ UNCHANGED <<gateway_vars, module_cache, same_dict, api_client_imported, cache_job,
                 profile_open, global_cache_timer, orphan_timers,
                 cache_save_interval_minutes, gateway_stored, fresh, last_load>>
  /\ UNCHANGED <<pause_per_api_call_ms, log_vars, validation, asm, save_call, pool, stats_vars, job_vars, ui_vars>>

\* the QTimer fires (cache.py:94 timeout.connect(save_api_cache)): the main thread
\* enters save_api_cache
TimerTick ==
  /\ MainFree
  /\ profile_open
  /\ global_cache_timer.active \/ orphan_timers > 0
  /\ SaveOpen("main", "tick")
  /\ last_main_op' = "other"
  /\ UNCHANGED <<gateway_vars, module_cache, same_dict, api_client_imported, cache_job,
                 profile_open, global_cache_timer, orphan_timers,
                 cache_save_interval_minutes, gateway_stored, fresh, last_load>>
  /\ UNCHANGED <<pause_per_api_call_ms, log_vars, validation, asm, save_call, pool, stats_vars, job_vars, ui_vars>>

\* the rest of save_api_cache on the main thread; for on_profile_closing then
\* stop_periodic_cache_save_timer() (__init__.py:69)
MainSaveDump ==
  /\ \E ok \in BOOLEAN : SaveDump("main", ok)
  /\ IF saver["main"].by = "closing"
     THEN stop_periodic_cache_save_timer /\ profile_open' = FALSE
     ELSE UNCHANGED <<global_cache_timer, profile_open>>
  /\ UNCHANGED <<gateway_vars, module_cache, same_dict, api_client_imported, cache_job,
                 orphan_timers, cache_save_interval_minutes, last_main_op,
                 gateway_stored, fresh, last_load>>
  /\ UNCHANGED <<pause_per_api_call_ms, log_vars, validation, asm, save_call, pool, stats_vars, job_vars, ui_vars>>

\* dialogs.py:270-274 with cache.py:68-78  the Clear Cache button, confirmed
clear_api_cache ==
  /\ MainFree
  /\ profile_open
  /\ cache_job = "none"
  /\ RebindModuleCache(EmptyCache)
  /\ cache_file' = NoFile
  /\ fresh' = [k \in Keys |-> TRUE]
  /\ gateway_stored' = {}
  /\ last_main_op' = "other"
  /\ UNCHANGED <<cache_enabled, cache_hits, api_calls, lk, key_lookups, key_api_incs,
                 key_hist, solo>>
  /\ UNCHANGED <<api_client_imported, saver, cache_job, profile_open, global_cache_timer,
                 orphan_timers, cache_save_interval_minutes, last_load>>
  /\ UNCHANGED <<pause_per_api_call_ms, log_vars, validation, asm, save_call, pool, stats_vars, job_vars, ui_vars>>

\* dialogs.py:300-328  SettingsDialog.accept: the settings are written into config, and
\* when save_config succeeds start_periodic_cache_save_timer() runs
SettingsAccept(enabled, minutes, pause, saved) ==
  /\ MainFree
  /\ profile_open
  /\ cache_enabled' = enabled
  /\ pause_per_api_call_ms' = pause
  /\ cache_save_interval_minutes' = minutes
  /\ IF saved
     THEN start_periodic_cache_save_timer(enabled, minutes)
     ELSE UNCHANGED <<global_cache_timer, orphan_timers>>
  /\ last_main_op' = IF saved THEN "schedule" ELSE "other"
  /\ UNCHANGED <<global_api_cache, cache_hits, api_calls, lk, key_lookups, key_api_incs,
                 key_hist, solo>>
  /\ UNCHANGED <<module_cache, same_dict, api_client_imported, cache_file, saver, cache_job,
                 profile_open, gateway_stored, fresh, last_load>>
  /\ UNCHANGED <<log_vars, validation, asm, save_call, pool, stats_vars, job_vars, ui_vars>>

\* the accept handler with only the cache check box changed
SettingsAcceptCache ==
  \E b \in BOOLEAN : b # cache_enabled /\ SettingsAccept(b, cache_save_interval_minutes, pause_per_api_call_ms, TRUE)

\* the accept handler with only the pause per API call changed
SettingsAcceptPause ==
  \E ms \in PauseValues :
    ms # pause_per_api_call_ms /\
      SettingsAccept(cache_enabled, cache_save_interval_minutes, ms, TRUE)

\* __init__.py:22-27  the batch command: `from .processor import ...` imports
\* api_client (once), and the job starts its first batch
StartCacheJob ==
  /\ MainFree
  /\ profile_open
  /\ cache_job = "none"
  /\ api_client_imported' = TRUE
  /\ cache_job' = "batch"
  /\ UNCHANGED <<gateway_vars, module_cache, same_dict, cache_file, saver, profile_open,
                 global_cache_timer, orphan_timers, cache_save_interval_minutes,
                 last_main_op, gateway_stored, fresh, last_load>>
  /\ UNCHANGED <<pause_per_api_call_ms, log_vars, validation, asm, save_call, pool, stats_vars, job_vars, ui_vars>>

\* processor.py:119-120  save_api_cache() in the job's thread once every record task
\* of the batch has resolved
BatchFlushOpen ==
  /\ cache_job = "batch"
  /\ \A t \in LookupThreads : lk[t].pc = "idle"
  /\ SaveOpen("job", "batch")
  /\ cache_job' = "flush"
  /\ UNCHANGED <<gateway_vars, module_cache, same_dict, api_client_imported,
                 profile_open, global_cache_timer, orphan_timers,
                 cache_save_interval_minutes, last_main_op, gateway_stored, fresh,
                 last_load>>
  /\ UNCHANGED <<pause_per_api_call_ms, log_vars, validation, asm, save_call, pool, stats_vars, job_vars, ui_vars>>

BatchFlushDump ==
  /\ cache_job = "flush"
  /\ \E ok \in BOOLEAN :
       /\ SaveDump("job", ok)
       /\ cache_job' = IF saver["job"].pc = "skip" THEN "flushed_off"
                       ELSE IF ok THEN "flushed_ok" ELSE "flushed_failed"
  /\ UNCHANGED <<gateway_vars, module_cache, same_dict, api_client_imported,
                 profile_open, global_cache_timer, orphan_timers,
                 cache_save_interval_minutes, last_main_op, gateway_stored, fresh,
                 last_load>>
  /\ UNCHANGED <<pause_per_api_call_ms, log_vars, validation, asm, save_call, pool, stats_vars, job_vars, ui_vars>>

\* processor.py:89, 130  the next batch, or the end of the job
AfterBatchFlush ==
  /\ cache_job \in {"flushed_off", "flushed_ok", "flushed_failed"}
  /\ cache_job' \in {"batch", "none"}
  /\ UNCHANGED <<gateway_vars, module_cache, same_dict, api_client_imported, cache_file,
                 saver, profile_open, global_cache_timer, orphan_timers,
                 cache_save_interval_minutes, last_main_op, gateway_stored, fresh,
                 last_load>>
  /\ UNCHANGED <<pause_per_api_call_ms, log_vars, validation, asm, save_call, pool, stats_vars, job_vars, ui_vars>>

(***************************************************************************)
(* The progress tracker (stats.py).                                         *)
(***************************************************************************)
\* stats.py:9-22  the module-level global_stats
InitStats ==
  /\ is_cancelled = FALSE
  /\ total_notes = 0
  /\ processed_notes = 0
  /\ updated_notes = 0
  /\ unchanged_notes = 0
  /\ empty_notes = 0
  /\ error_notes = 0

\* stats.py:42-46  start_processing: reset_stats() (lines 24-40), then total_notes
start_processing(total) ==
  /\ total_notes' = total
  /\ processed_notes' = 0
  /\ updated_notes' = 0
  /\ unchanged_notes' = 0
  /\ empty_notes' = 0
  /\ error_notes' = 0
  /\ cache_hits' = 0
  /\ api_calls' = 0
  /\ is_cancelled' = FALSE

(***************************************************************************)
(* The batch orchestrator (processor.py).                                   *)
(***************************************************************************)
Notes == 1..NumNotes
note_ids == [i \in 1..NumNotes |-> i]   \* params["note_ids"], the selected records
max_workers == MaxWorkers               \* cfg_perf['max_workers']
OLD == "old"                            \* some content that is not the record's glossary
GLOSS == "glossary"                     \* the non-empty markup the assembler renders
EMPTY_HTML == ""                        \* the assembler's result with no entry to render

Min(a, b) == IF a < b THEN a ELSE b

\* mutant of Batches: every batch but the last runs one record into the next
BatchesOverlapping(ids, size) ==
  [b \in 1..((Len(ids) + size - 1) \div size) |->
     SubSeq(ids, (b - 1) * size + 1, Min(b * size + 1, Len(ids)))]

\* processor.py:83  [note_ids[i:i + batch_size] for i in range(0, len(note_ids), batch_size)]
Batches(ids, size) ==
  [b \in 1..((Len(ids) + size - 1) \div size) |->
     SubSeq(ids, (b - 1) * size + 1, Min(b * size, Len(ids)))]

Range(f) == {f[i] : i \in DOMAIN f}
\* the split of note_ids for every batch size of the model
BatchesOfSize == [size \in 1..NumNotes |-> Batches(note_ids, size)]
BatchIndexOfSize ==
  [size \in 1..NumNotes |->
     [n \in Notes |-> CHOOSE b \in 0..(Len(BatchesOfSize[size]) - 1) :
                         n \in Range(BatchesOfSize[size][b + 1])]]
NumBatches == Len(BatchesOfSize[batch_size])
\* the records of batch b (batch_index counts from 0, as enumerate does)
BatchIds(b) == IF b + 1 \in 1..NumBatches THEN Range(BatchesOfSize[batch_size][b + 1]) ELSE {}
BatchOfNote(n) == BatchIndexOfSize[batch_size][n]

NoTask == [pc |-> "none", tmp |-> 0, status |-> "none", errs |-> 0,
           collected |-> FALSE, written |-> "no", counted |-> 0,
           src |-> "none", empties |-> 0, html |-> "none"]
Executing(n) == task[n].pc \in {"generate", "empty_store", "unchanged_store", "error_store"}
Resolved(n) == task[n].pc = "done"

\* glossary_generator.py:26-29  the lookup executor of one generate_glossary_data call:
\* lookups waiting in its queue (kana, kanji, readings, in the order of submission),
\* lookups running on its workers, kanji results not yet collected
NoPool == [phase |-> "none", qk |-> 0, qj |-> 0, qr |-> 0,
           rk |-> 0, rj |-> 0, rr |-> 0, dj |-> 0]
Running(n) == pool[n].rk + pool[n].rj + pool[n].rr

\* config.py:17-21  the defaults of config['general']
DefaultGeneral ==
  [include_hiragana |-> TRUE, include_katakana |-> TRUE, include_kanji |-> TRUE,
   include_romaji |-> TRUE, include_kanji_meanings |-> TRUE]

\* no call of generate_glossary_data made yet; collected holds the keys of
\* api_results in the order they were inserted
NoAsm == [pc |-> "idle", text |-> <<>>, cfg_gen |-> DefaultGeneral, null_keys |-> {},
          max_workers |-> 0, unique_chars |-> <<>>, info |-> <<>>, futures |-> <<>>,
          api_results |-> <<>>, collected |-> <<>>, reading_results |-> <<>>,
          html |-> <<>>]

JobInFlight ==
  job_pc \in {"init", "loop", "submit", "tasks", "save", "flush", "pause", "return"}

\* no progress dialog created yet
NoDialog == [timer_active |-> FALSE, found |-> "running"]

\* dialogs.py:421-423  the test of update_stats_display for a finished job
Terminal(total, processed, cancelled) == (processed >= total /\ total > 0) \/ cancelled

\* dialogs.py:421-429  update_stats_display, its last part: for a job found finished
\* the timer is stopped and the cancel controls are disabled, and unless the job was
\* cancelled the label reads "Processing Complete!"
UpdatedDisplay(dialog, total, processed, cancelled) ==
  IF Terminal(total, processed, cancelled)
  THEN [timer_active |-> FALSE, found |-> IF cancelled THEN "cancelled" ELSE "complete"]
  ELSE dialog

\* dialogs.py:333-342, 388  ProcessingStatsDialog.__init__: init_ui ends with
\* update_stats_display(), and timer.start(500) comes after it
NewStatsDialog(total, processed, cancelled) ==
  [UpdatedDisplay([timer_active |-> FALSE, found |-> "running"], total, processed, cancelled)
     EXCEPT !.timer_active = TRUE]

\* config.py:34  the default of "cache_max_size_mb"
DefaultCacheMaxSizeMb == 10

\* no call of save_api_cache followed yet
NoSave == [pc |-> "idle", cache_enabled |-> TRUE, cache_max_size_mb |-> DefaultCacheMaxSizeMb,
           file |-> "as before", file_size_bytes |-> 0, logged |-> <<>>]

InitJobVars ==
  /\ job_pc = "idle"
  /\ batch_size \in 1..NumNotes
  /\ batch_index = 0
  /\ task = [n \in Notes |-> NoTask]
  /\ note_target \in [Notes -> {OLD, GLOSS}]
  /\ flushes = 0
  /\ cancel_batch = {}
  /\ dialog_open = FALSE
  /\ other_job = "none"
  /\ stats_dialog = NoDialog
  /\ pool = [n \in Notes |-> NoPool]
  /\ log_file_mode = "a"                     \* logger.py:13
  /\ log = <<>>
  /\ log_epoch = 0
  /\ validation = "none"
  /\ asm = NoAsm
  /\ save_call = NoSave

\* processor.py:157-193  the validation of run_batch_glossary_process: the note type,
\* the target field (askUser, add_field_to_model) and the records found
ValidationOutcome(model_found, target_in_model, overwrite, yes, field_added, notes_found) ==
  IF ~model_found THEN "note type not found"
  ELSE IF target_in_model /\ ~overwrite /\ ~yes THEN "overwrite declined"
  ELSE IF ~target_in_model /\ ~yes THEN "creation declined"
  ELSE IF ~target_in_model /\ ~field_added THEN "field not added"
  ELSE IF ~notes_found THEN "no notes found"
  ELSE "passed"

\* how the validation can end, over every note type, target field, setting, answer of
\* the user and search result
ValidationOutcomes ==
  {ValidationOutcome(model_found, target_in_model, overwrite, yes, field_added, notes_found) :
     model_found \in BOOLEAN, target_in_model \in BOOLEAN, overwrite \in BOOLEAN,
     yes \in BOOLEAN, field_added \in BOOLEAN, notes_found \in BOOLEAN}

\* mutant of StopsCommand: the command goes on after a failed validation
NeverStopsCommand(outcome) == FALSE

\* processor.py:161, 171, 176, 180, 193  the returns of the validation
StopsCommand(outcome) == outcome # "passed"

\* processor.py:155-216  run_batch_glossary_process: the validation, then reset the
\* cancellation flag, show the progress dialog, start the background task
\* The menu is reachable when the modal progress dialog is not shown.  The first call
\* starts the job; a call made while that job is still in flight starts a further one.
run_batch_glossary_process ==
  /\ ~dialog_open
  /\ job_pc = "idle" \/ (JobInFlight /\ other_job = "none")
  /\ \E outcome \in ValidationOutcomes :
       /\ validation' = outcome
       /\ IF StopsCommand(outcome)
          THEN UNCHANGED <<is_cancelled, dialog_open, job_pc, other_job, stats_dialog>>
          ELSE /\ is_cancelled' = FALSE
               /\ dialog_open' = TRUE
               /\ stats_dialog' = NewStatsDialog(total_notes, processed_notes, FALSE)
               /\ job_pc' = IF job_pc = "idle" THEN "init" ELSE job_pc
               /\ other_job' = IF job_pc = "idle" THEN other_job ELSE "init"
  /\ UNCHANGED <<cache_vars, log_vars, asm, save_call, pool, gateway_vars, total_notes, processed_notes,
                 updated_notes, unchanged_notes, empty_notes, error_notes,
                 batch_size, batch_index, task, note_target, flushes, cancel_batch>>

\* processor.py:66-86  the background task up to its loop: start_processing(len(note_ids))
StartJob ==
  /\ job_pc = "init"
  /\ start_processing(Len(note_ids))
  /\ job_pc' = "loop"
  /\ batch_index' = 0
  /\ UNCHANGED <<pause_per_api_call_ms, session_vars, pool, ui_vars, cache_enabled, global_api_cache, lk, key_lookups, key_api_incs, key_hist,
                 solo, batch_size, task, note_target, flushes, cancel_batch>>

\* processor.py:89-92  the loop ends when the batches are used up, or by the break
\* taken when is_processing_cancelled()
LeaveLoop == batch_index >= NumBatches \/ is_cancelled

\* processor.py:89-92  the head of the loop
NextBatch ==
  /\ job_pc = "loop"
  /\ job_pc' = IF LeaveLoop THEN "return" ELSE "submit"
  /\ UNCHANGED <<session_vars, pool, gateway_vars, stats_vars, ui_vars, batch_size, batch_index, task,
                 note_target, flushes, cancel_batch>>

\* processor.py:94-100  results = []; one executor.submit per record of the batch
SubmitBatch ==
  /\ job_pc = "submit"
  /\ job_pc' = "tasks"
  /\ task' = [n \in Notes |->
                IF n \in BatchIds(batch_index)
                THEN [NoTask EXCEPT !.pc = "queued"] ELSE task[n]]
  /\ UNCHANGED <<session_vars, pool, gateway_vars, stats_vars, ui_vars, batch_size, batch_index, note_target,
                 flushes, cancel_batch>>

\* mutant of CanStart: the executor starts a thread for every submitted task
CanStartUnbounded(n) ==
  /\ task[n].pc = "queued"
  /\ \A m \in Notes : task[m].pc = "queued" => n <= m

\* processor.py:96  ThreadPoolExecutor(max_workers=...): a queued task starts when a
\* worker is free, in the order of submission
CanStart(n) ==
  /\ task[n].pc = "queued"
  /\ Cardinality({m \in Notes : Executing(m)}) < max_workers
  /\ \A m \in Notes : task[m].pc = "queued" => n <= m

\* mutant of OnTaskException: the exception leaves the task
ExceptionEscapesTask(n) == [task[n] EXCEPT !.pc = "done", !.status = "Raised"]

\* processor.py:60-61  except Exception: increment_error() -- here its read of the counter
OnTaskException(n) == [task[n] EXCEPT !.pc = "error_store", !.tmp = error_notes]

\* what a record can hold in its source field, after html_to_text_line, as a
\* sequence of characters; MISSING_FIELD stands for a record without the field
MISSING_FIELD == <<"(no such field)">>
SPACE == " "
SourceFields == {MISSING_FIELD, <<>>, <<SPACE>>, <<SPACE, SPACE>>, <<"nichi">>, <<SPACE, "nichi">>}

RECURSIVE LStrip(_)
LStrip(txt) == IF txt # <<>> /\ Head(txt) = SPACE THEN LStrip(Tail(txt)) ELSE txt
RECURSIVE RStrip(_)
RStrip(txt) ==
  IF txt # <<>> /\ txt[Len(txt)] = SPACE THEN RStrip(SubSeq(txt, 1, Len(txt) - 1)) ELSE txt
\* str.strip()
Strip(txt) == RStrip(LStrip(txt))

\* mutant of SourceText: a record without the source field reads as a text
SourceTextOfMissingField(field) == IF field = MISSING_FIELD THEN <<"nichi">> ELSE field

\* processor.py:42-44  source_text = "" unless source_field is in the note
SourceText(field) == IF field = MISSING_FIELD THEN <<>> ELSE field

\* history: the field is missing, blank or all whitespace
NothingToRead(field) ==
  field = MISSING_FIELD \/ \A i \in 1..Len(field) : field[i] = SPACE

\* processor.py:38-48  the task reads its record: get_note, the source field, the blank
\* test, and for a blank source the read half of increment_empty()
TaskReadNote(n) ==
  /\ CanStart(n)
  /\ \/ \E field \in SourceFields :
          task' = [task EXCEPT ![n] =
                     IF Strip(SourceText(field)) = <<>>
                     THEN [@ EXCEPT !.pc = "empty_store", !.tmp = empty_notes,
                                    !.src = IF NothingToRead(field) THEN "blank" ELSE "other"]
                     ELSE [@ EXCEPT !.pc = "generate",
                                    !.src = IF NothingToRead(field) THEN "blank" ELSE "other"]]
     \/ task' = [task EXCEPT ![n] = [OnTaskException(n) EXCEPT !.src = "other"]]
  /\ UNCHANGED <<session_vars, pool, ui_vars, gateway_vars, stats_vars, job_pc, batch_size, batch_index, note_target,
                 flushes, cancel_batch>>

\* processor.py:54  if glossary_html and note[target_field] != glossary_html
NeedsUpdate(glossary_html, current) == glossary_html # EMPTY_HTML /\ current # glossary_html

\* processor.py:50-58  generate_glossary_data, the comparison with the target field,
\* and for an unchanged record the read half of increment_unchanged()
TaskGenerate(n) ==
  /\ task[n].pc = "generate"
  /\ \E out \in {"raise", EMPTY_HTML, GLOSS} :
       task' = [task EXCEPT ![n] =
                  CASE out = "raise" -> OnTaskException(n)
                    [] NeedsUpdate(out, note_target[n]) ->
                         [@ EXCEPT !.pc = "done", !.status = "Updated", !.html = out]
                    [] OTHER -> [@ EXCEPT !.pc = "unchanged_store", !.tmp = unchanged_notes,
                                          !.html = out]]
  /\ UNCHANGED <<session_vars, pool, ui_vars, gateway_vars, stats_vars, job_pc, batch_size, batch_index, note_target,
                 flushes, cancel_batch>>

\* stats.py:73-75  increment_empty, the write half; processor.py:48 return "Empty"
TaskStoreEmpty(n) ==
  /\ task[n].pc = "empty_store"
  /\ empty_notes' = task[n].tmp + 1
  /\ task' = [task EXCEPT ![n] = [@ EXCEPT !.pc = "done", !.tmp = 0, !.status = "Empty",
                                           !.empties = Cap2(@)]]
  /\ UNCHANGED <<session_vars, pool, ui_vars, gateway_vars, is_cancelled, total_notes, processed_notes, updated_notes,
                 unchanged_notes, error_notes, job_pc, batch_size, batch_index,
                 note_target, flushes, cancel_batch>>

\* stats.py:69-71  increment_unchanged, the write half; processor.py:58 return "Unchanged"
TaskStoreUnchanged(n) ==
  /\ task[n].pc = "unchanged_store"
  /\ unchanged_notes' = task[n].tmp + 1
  /\ task' = [task EXCEPT ![n] = [@ EXCEPT !.pc = "done", !.tmp = 0, !.status = "Unchanged",
                                           !.html = "none"]]
  /\ UNCHANGED <<session_vars, pool, ui_vars, gateway_vars, is_cancelled, total_notes, processed_notes, updated_notes,
                 empty_notes, error_notes, job_pc, batch_size, batch_index,
                 note_target, flushes, cancel_batch>>

\* stats.py:77-79  increment_error, the write half; processor.py:62-63 return "Error: ..."
TaskStoreError(n) ==
  /\ task[n].pc = "error_store"
  /\ error_notes' = task[n].tmp + 1
  /\ task' = [task EXCEPT ![n] = [@ EXCEPT !.pc = "done", !.tmp = 0, !.status = "Error",
                                           !.errs = Cap2(@)]]
  /\ UNCHANGED <<session_vars, pool, ui_vars, gateway_vars, is_cancelled, total_notes, processed_notes, updated_notes,
                 unchanged_notes, empty_notes, job_pc, batch_size, batch_index,
                 note_target, flushes, cancel_batch>>

\* mutant of AllTasksResolved: the orchestrator goes on after the first result
SomeTaskResolved(b) == \E n \in BatchIds(b) : Resolved(n)

\* processor.py:96-103  leaving the `with ThreadPoolExecutor` block waits for every task
AllTasksResolved(b) == \A n \in BatchIds(b) : Resolved(n)

\* processor.py:102-103, 126-128  results.append(future.result()); an exception that
\* left a task is raised again here, logged and re-raised
CollectResults ==
  /\ job_pc = "tasks"
  /\ AllTasksResolved(batch_index)
  /\ job_pc' = IF \E n \in BatchIds(batch_index) : task[n].status = "Raised"
               THEN "failed" ELSE "save"
  /\ task' = [n \in Notes |->
                IF n \in BatchIds(batch_index) /\ Resolved(n)
                THEN [task[n] EXCEPT !.collected = TRUE] ELSE task[n]]
  /\ UNCHANGED <<session_vars, pool, gateway_vars, stats_vars, ui_vars, batch_size, batch_index, note_target,
                 flushes, cancel_batch>>

\* processor.py:106-117  one turn of the loop over results: the write of an "Updated"
\* result with increment_updated(), or increment_error() when the write raises, then
\* increment_processed().  results holds the collected tasks in the order they
\* completed, which is any order.
SaveResult(n) ==
  /\ job_pc = "save"
  /\ n \in BatchIds(batch_index)
  /\ task[n].collected
  /\ task[n].counted = 0
  /\ \E ok \in (IF task[n].status = "Updated" THEN BOOLEAN ELSE {TRUE}) :
       /\ note_target' = IF task[n].status = "Updated" /\ ok
                         THEN [note_target EXCEPT ![n] = GLOSS] ELSE note_target
       /\ updated_notes' = IF task[n].status = "Updated" /\ ok
                           THEN updated_notes + 1 ELSE updated_notes
       /\ error_notes' = IF ok THEN error_notes ELSE error_notes + 1
       /\ task' = [task EXCEPT ![n] = [@ EXCEPT
                     !.counted = Cap2(@),
                     !.errs = IF ok THEN @ ELSE Cap2(@),
                     !.written = IF task[n].status # "Updated" THEN "no"
                                 ELSE IF ok THEN "yes" ELSE "failed"]]
  /\ processed_notes' = processed_notes + 1
  /\ job_pc' = IF \A m \in BatchIds(batch_index) \ {n} :
                       task[m].collected => task[m].counted > 0
               THEN "flush" ELSE "save"
  /\ UNCHANGED <<session_vars, pool, ui_vars, gateway_vars, is_cancelled, total_notes, unchanged_notes, empty_notes,
                 batch_size, batch_index, flushes, cancel_batch>>

\* mutant of FlushAfterBatch: a cancelled job skips the flush of its last batch
FlushUnlessCancelled ==
  /\ job_pc = "flush"
  /\ flushes' = IF is_cancelled THEN flushes ELSE flushes + 1
  /\ job_pc' = "pause"
  /\ UNCHANGED <<session_vars, pool, ui_vars, gateway_vars, stats_vars, batch_size, batch_index, task, note_target,
                 cancel_batch>>

\* processor.py:119-120  save_api_cache() after the batch
FlushAfterBatch ==
  /\ job_pc = "flush"
  /\ flushes' = flushes + 1
  /\ job_pc' = "pause"
  /\ UNCHANGED <<session_vars, pool, ui_vars, gateway_vars, stats_vars, batch_size, batch_index, task, note_target,
                 cancel_batch>>

\* config.py:29  the default of "pause_between_batches_ms", read at processor.py:80
pause_between_batches_ms == 500

\* processor.py:122  if batch_index < len(batches) - 1 and pause_ms > 0: the test
\* reads the batch counter and the setting, and not the cancellation flag
PauseDue == batch_index < NumBatches - 1 /\ pause_between_batches_ms > 0

\* processor.py:122-124  time.sleep(pause_ms / 1000.0), then the next turn of the loop
PauseBetweenBatches ==
  /\ job_pc = "pause"
  /\ PauseDue
  /\ batch_index' = batch_index + 1
  /\ job_pc' = "loop"
  /\ UNCHANGED <<session_vars, pool, ui_vars, gateway_vars, stats_vars, batch_size, task, note_target, flushes,
                 cancel_batch>>

\* processor.py:122  the test fails: the next turn of the loop without a pause
NoPauseAfterBatch ==
  /\ job_pc = "pause"
  /\ ~PauseDue
  /\ batch_index' = batch_index + 1
  /\ job_pc' = "loop"
  /\ UNCHANGED <<session_vars, pool, ui_vars, gateway_vars, stats_vars, batch_size, task, note_target, flushes,
                 cancel_batch>>

\* processor.py:130  return global_stats["updated_notes"], global_stats["total_notes"]
ReturnJob ==
  /\ job_pc = "return"
  /\ job_pc' = "done"
  /\ UNCHANGED <<session_vars, pool, ui_vars, gateway_vars, stats_vars, batch_size, batch_index, task, note_target,
                 flushes, cancel_batch>>

\* dialogs.py:431-439  cancel_process, confirmed by the user; stats.py:81-83 cancel_processing
\* The batch in flight: a batch is in flight from the moment the loop head let it
\* pass; at the loop head the batch before it has just finished.
BatchInFlight ==
  IF job_pc \in {"submit", "tasks", "save", "flush", "pause"} THEN {batch_index}
  ELSE IF job_pc = "loop" /\ batch_index > 0 THEN {batch_index - 1}
  ELSE {}

cancel_process ==
  /\ dialog_open
  /\ JobInFlight
  /\ ~is_cancelled
  /\ is_cancelled' = TRUE
  /\ cancel_batch' = IF BatchInFlight # {} THEN BatchInFlight ELSE cancel_batch
  /\ UNCHANGED <<session_vars, pool, ui_vars, gateway_vars, total_notes, processed_notes, updated_notes, unchanged_notes,
                 empty_notes, error_notes, job_pc, batch_size, batch_index, task,
                 note_target, flushes>>

\* dialogs.py:441-451  closeEvent of the progress dialog.  While the counters say the job
\* is unfinished the user is asked twice (closeEvent, then cancel_process); the dialog
\* closes after a yes to the first question, whatever the answer to the second.
closeEvent ==
  /\ dialog_open
  /\ IF ~is_cancelled /\ processed_notes < total_notes
     THEN \E close \in BOOLEAN, sure \in BOOLEAN :
            /\ dialog_open' = ~close
            /\ is_cancelled' = (close /\ sure)
            /\ cancel_batch' = IF close /\ sure /\ BatchInFlight # {}
                               THEN BatchInFlight ELSE cancel_batch
     ELSE /\ dialog_open' = FALSE
          /\ UNCHANGED <<is_cancelled, cancel_batch>>
  /\ UNCHANGED <<session_vars, pool, gateway_vars, total_notes, processed_notes, updated_notes, unchanged_notes,
                 empty_notes, error_notes, job_pc, batch_size, batch_index, task,
                 note_target, flushes, other_job, stats_dialog>>

\* processor.py:86  start_processing(len(note_ids)) at the head of the further
\* background task; the rest of that task is not followed
OtherJobStart ==
  /\ other_job = "init"
  /\ start_processing(Len(note_ids))
  /\ other_job' = "running"
  /\ UNCHANGED <<pause_per_api_call_ms, session_vars, pool, cache_enabled, global_api_cache, lk, key_lookups, key_api_incs, key_hist,
                 solo, job_vars, dialog_open, stats_dialog>>

\* config['performance']['api_call_workers'], read at glossary_generator.py:26
api_call_workers == ApiCallWorkers

(***************************************************************************)
(* Characters (text_utils.py).  A character is its code point.              *)
(***************************************************************************)
\* text_utils.py:10-11  the long-vowel mark U+30FC, named in both kana classes
LONG_VOWEL_MARK == 12540

\* mutant of is_hiragana: the hiragana block U+3040-U+309F alone
HiraganaBlockOnly(c) == c \in 12352..12447

\* text_utils.py:10, 13-15  HIRAGANA_REGEX [\u3040-\u309F and U+30FC], fullmatch
is_hiragana(c) == c \in 12352..12447 \/ c = LONG_VOWEL_MARK

\* text_utils.py:11, 17-19  KATAKANA_REGEX [\u30A0-\u30FF and U+30FC], fullmatch
is_katakana(c) == c \in 12448..12543 \/ c = LONG_VOWEL_MARK

\* text_utils.py:9, 21-23  KANJI_REGEX [U+4E00-U+9FAF, U+20000-U+2A6DF], fullmatch
is_kanji(c) == c \in 19968..40879 \/ c \in 131072..173791

\* text_utils.py:25-27
is_japanese_char(c) == is_hiragana(c) \/ is_katakana(c) \/ is_kanji(c)

\* text_utils.py:31  c.isspace(): the white-space characters of str.isspace
isspace(c) ==
  c \in 9..13 \cup 28..32 \cup {133, 160, 5760} \cup 8192..8202
        \cup {8232, 8233, 8239, 8287, 12288}

\* text_utils.py:32  text.find as the sort key: the position of the first occurrence
find(text, c) == CHOOSE i \in 1..Len(text) : text[i] = c /\ \A j \in 1..(i - 1) : text[j] # c

\* text_utils.py:31-32  sorted(set, key=text.find): the smallest key first
RECURSIVE sorted_by_find(_, _)
sorted_by_find(chars, text) ==
  IF chars = {} THEN <<>>
  ELSE LET first == CHOOSE c \in chars : \A d \in chars : find(text, c) <= find(text, d)
       IN  <<first>> \o sorted_by_find(chars \ {first}, text)

\* mutant of extract_unique_japanese_chars: the characters in code-point order
RECURSIVE SortedByCodePoint(_)
SortedByCodePoint(chars) ==
  IF chars = {} THEN <<>>
  ELSE LET first == CHOOSE c \in chars : \A d \in chars : c <= d
       IN  <<first>> \o SortedByCodePoint(chars \ {first})

ExtractInCodePointOrder(text) ==
  SortedByCodePoint({text[i] : i \in {j \in 1..Len(text) :
                       is_japanese_char(text[j]) /\ ~isspace(text[j])}})

\* text_utils.py:29-32  extract_unique_japanese_chars
extract_unique_japanese_chars(text) ==
  sorted_by_find({text[i] : i \in {j \in 1..Len(text) :
                    is_japanese_char(text[j]) /\ ~isspace(text[j])}}, text)

\* text_utils.py:68-89  get_character_info: the three tests and the type
get_character_info(char) ==
  [is_hiragana |-> is_hiragana(char),
   is_katakana |-> is_katakana(char),
   is_kanji    |-> is_kanji(char),
   is_japanese |-> is_japanese_char(char),
   type        |-> IF is_hiragana(char) THEN "hiragana"
                   ELSE IF is_katakana(char) THEN "katakana"
                   ELSE IF is_kanji(char) THEN "kanji"
                   ELSE "other"]

\* the characters of the lookup-pool specification: U+304B (ka), U+65E5 (nichi)
CodePoint == ("ka" :> 12363) @@ ("nichi" :> 26085)

\* the source texts of the lookup-pool specification, as their unique characters:
\* one kana, or one kana and one kanji
Texts == {{"ka"}, {"ka", "nichi"}}
Readings == {"hi", "nichi", "jitsu"}      \* the readings a kanji-info result lists
\* glossary_generator.py:33  is_hiragana(char) or is_katakana(char)
is_kana(ch) == is_hiragana(CodePoint[ch]) \/ is_katakana(CodePoint[ch])

\* glossary_generator.py:26-44  open the executor and submit one lookup per kana
\* character, then one per kanji character
OpenLookupPool(n) ==
  /\ task[n].pc = "generate"
  /\ pool[n].phase = "none"
  /\ \E unique_chars \in Texts :
       pool' = [pool EXCEPT ![n] =
                  [NoPool EXCEPT !.phase = "open",
                                 !.qk = Cardinality({c \in unique_chars : is_kana(c)}),
                                 !.qj = Cardinality({c \in unique_chars : is_kanji(CodePoint[c])})]]
  /\ UNCHANGED <<session_vars, gateway_vars, stats_vars, job_vars, ui_vars>>

\* mutant of WorkerFree: the workers leave once the lookups submitted at the start
\* are taken, and the readings submitted later find none
NoWorkerForReadings(n) ==
  Running(n) < api_call_workers /\ pool[n].qk + pool[n].qj > 0

\* glossary_generator.py:26  ThreadPoolExecutor(max_workers=api_call_workers)
WorkerFree(n) == Running(n) < api_call_workers

\* a worker of the lookup executor takes the oldest queued lookup
StartLookup(n) ==
  /\ pool[n].phase = "open"
  /\ WorkerFree(n)
  /\ pool[n].qk + pool[n].qj + pool[n].qr > 0
  /\ pool' = [pool EXCEPT ![n] =
                CASE @.qk > 0 -> [@ EXCEPT !.qk = @ - 1, !.rk = @ + 1]
                  [] @.qj > 0 -> [@ EXCEPT !.qj = @ - 1, !.rj = @ + 1]
                  [] OTHER    -> [@ EXCEPT !.qr = @ - 1, !.rr = @ + 1]]
  /\ UNCHANGED <<session_vars, gateway_vars, stats_vars, job_vars, ui_vars>>

\* a running lookup returns (api_client.py get_romaji_for_text / get_kanji_info)
FinishLookup(n) ==
  /\ pool[n].phase = "open"
  /\ \E kind \in {"kana", "kanji", "reading"} :
       /\ kind = "kana" => pool[n].rk > 0
       /\ kind = "kanji" => pool[n].rj > 0
       /\ kind = "reading" => pool[n].rr > 0
       /\ pool' = [pool EXCEPT ![n] =
                     CASE kind = "kana"  -> [@ EXCEPT !.rk = @ - 1]
                       [] kind = "kanji" -> [@ EXCEPT !.rj = @ - 1, !.dj = @ + 1]
                       [] OTHER          -> [@ EXCEPT !.rr = @ - 1]]
  /\ UNCHANGED <<session_vars, gateway_vars, stats_vars, job_vars, ui_vars>>

\* glossary_generator.py:46-63  after every kana result was collected, one turn of the
\* loop over completed kanji lookups: a non-null kanji info with include_romaji
\* submits one lookup per reading
CollectKanji(n) ==
  /\ pool[n].phase = "open"
  /\ pool[n].qk = 0 /\ pool[n].rk = 0
  /\ pool[n].dj > 0
  /\ \E kanji_info \in {None, Answer} :
       pool' = [pool EXCEPT ![n] =
                  [@ EXCEPT !.dj = @ - 1,
                            !.qr = IF kanji_info = None THEN @
                                   ELSE @ + Cardinality(Readings)]]
  /\ UNCHANGED <<session_vars, gateway_vars, stats_vars, job_vars, ui_vars>>

\* glossary_generator.py:65-78  the last reading result was collected and the `with`
\* block is left
CloseLookupPool(n) ==
  /\ pool[n].phase = "open"
  /\ pool[n].qk + pool[n].qj + pool[n].qr = 0
  /\ Running(n) = 0
  /\ pool[n].dj = 0
  /\ pool' = [pool EXCEPT ![n] = [@ EXCEPT !.phase = "closed"]]
  /\ UNCHANGED <<session_vars, gateway_vars, stats_vars, job_vars, ui_vars>>

InitJob ==
  /\ InitCacheVars
  /\ cache_enabled = TRUE
  /\ pause_per_api_call_ms = 50
  /\ global_api_cache = [k \in Keys |-> NoEntry]
  /\ cache_hits = 0
  /\ api_calls = 0
  /\ lk = [t \in LookupThreads |-> IdleLookup]
  /\ key_lookups = [k \in Keys |-> 0]
  /\ key_api_incs = [k \in Keys |-> 0]
  /\ key_hist = [k \in Keys |-> {}]
  /\ solo = NoSolo
  /\ InitStats
  /\ InitJobVars

NextJob ==
  \/ run_batch_glossary_process
  \/ StartJob
  \/ NextBatch
  \/ SubmitBatch
  \/ \E n \in Notes : TaskReadNote(n)
  \/ \E n \in Notes : TaskGenerate(n)
  \/ \E n \in Notes : TaskStoreEmpty(n)
  \/ \E n \in Notes : TaskStoreUnchanged(n)
  \/ \E n \in Notes : TaskStoreError(n)
  \/ CollectResults
  \/ \E n \in Notes : SaveResult(n)
  \/ FlushAfterBatch
  \/ PauseBetweenBatches
  \/ NoPauseAfterBatch
  \/ ReturnJob
  \/ cancel_process

SpecJob == InitJob /\ [][NextJob]_vars

\* the job together with the user closing the progress dialog and starting again
NextSession ==
  \/ NextJob
  \/ closeEvent
  \/ OtherJobStart

SpecSession == InitJob /\ [][NextSession]_vars

\* the job with the lookup executor of every record task followed, all records in
\* one batch
InitPools ==
  /\ InitJob
  /\ batch_size = NumNotes
  /\ note_target = [n \in Notes |-> OLD]

NextPools ==
  \/ run_batch_glossary_process
  \/ StartJob
  \/ NextBatch
  \/ SubmitBatch
  \/ \E n \in Notes : TaskReadNote(n)
  \/ \E n \in Notes : OpenLookupPool(n)
  \/ \E n \in Notes : StartLookup(n)
  \/ \E n \in Notes : FinishLookup(n)
  \/ \E n \in Notes : CollectKanji(n)
  \/ \E n \in Notes : CloseLookupPool(n)
  \/ \E n \in Notes : TaskGenerate(n) /\ pool[n].phase = "closed"
  \/ \E n \in Notes : TaskStoreEmpty(n)
  \/ \E n \in Notes : TaskStoreUnchanged(n)
  \/ \E n \in Notes : TaskStoreError(n)
  \/ CollectResults
  \/ \E n \in Notes : SaveResult(n)
  \/ FlushAfterBatch
  \/ NoPauseAfterBatch
  \/ ReturnJob
  \/ cancel_process

SpecPools == InitPools /\ [][NextPools]_vars

InitLookup ==
  /\ InitCacheVars
  /\ cache_enabled = TRUE                       \* config.py:33
  /\ pause_per_api_call_ms = 50                 \* config.py:30
  /\ global_api_cache = [k \in Keys |-> NoEntry]  \* cache.py:16
  /\ cache_hits = 0                             \* stats.py:16
  /\ api_calls = 0                              \* stats.py:17
  /\ lk = [t \in LookupThreads |-> IdleLookup]
  /\ key_lookups = [k \in Keys |-> 0]
  /\ key_api_incs = [k \in Keys |-> 0]
  /\ key_hist = [k \in Keys |-> {}]
  /\ solo = NoSolo
  /\ InitStats
  /\ InitJobVars
  /\ batch_size = 1                          \* no job runs in this specification
  /\ note_target = [n \in Notes |-> OLD]

NextLookup ==
  \/ \E t \in LookupThreads, x \in KanaTexts : get_romaji_for_text(t, x)
  \/ \E t \in LookupThreads, x \in KanjiChars : get_kanji_info(t, x)
  \/ \E t \in LookupThreads : CheckCache(t)
  \/ \E t \in LookupThreads : HitLoad(t)
  \/ \E t \in LookupThreads : HitStore(t)
  \/ \E t \in LookupThreads : ApiLoad(t)
  \/ \E t \in LookupThreads : ApiStore(t)
  \/ \E t \in LookupThreads : PaceDelay(t)
  \/ \E t \in LookupThreads : NetworkCall(t)
  \/ \E t \in LookupThreads : StoreResult(t)
  \/ \E t \in LookupThreads : ReturnLookup(t)
  \/ SettingsAcceptCache

SpecLookup == InitLookup /\ [][NextLookup]_vars

(***************************************************************************)
(* SpecPacing: the gateway threads with caching enabled, while the pause   *)
(* per API call is changed in the settings between and during lookups.     *)
(***************************************************************************)
NextPacing ==
  \/ \E t \in LookupThreads, x \in KanaTexts : get_romaji_for_text(t, x)
  \/ \E t \in LookupThreads, x \in KanjiChars : get_kanji_info(t, x)
  \/ \E t \in LookupThreads : CheckCache(t)
  \/ \E t \in LookupThreads : HitLoad(t)
  \/ \E t \in LookupThreads : HitStore(t)
  \/ \E t \in LookupThreads : ApiLoad(t)
  \/ \E t \in LookupThreads : ApiStore(t)
  \/ \E t \in LookupThreads : PaceDelay(t)
  \/ \E t \in LookupThreads : NetworkCall(t)
  \/ \E t \in LookupThreads : StoreResult(t)
  \/ \E t \in LookupThreads : ReturnLookup(t)
  \/ SettingsAcceptPause

SpecPacing == InitLookup /\ [][NextPacing]_vars

(***************************************************************************)
(* SpecCache: the cache over a session.  Profiles are opened and closed,   *)
(* settings are accepted, the cache is cleared, the timer fires, and batch *)
(* jobs run lookups and flush after each batch.  The cache file found at   *)
(* start is absent, damaged, or holds any mapping without nulls.           *)
(***************************************************************************)
StoredFiles == {GoodFile(mapping) : mapping \in [Keys -> {NoEntry, Answer}]}

InitCache ==
  /\ cache_enabled \in BOOLEAN
  /\ pause_per_api_call_ms = 50                 \* config.py:30
  /\ global_api_cache = EmptyCache              \* cache.py:16
  /\ module_cache = EmptyCache
  /\ same_dict = TRUE
  /\ api_client_imported = FALSE
  /\ cache_file \in {NoFile, BadFile} \cup StoredFiles
  /\ saver = [th \in SaverThreads |-> IdleSaver]
  /\ cache_job = "none"
  /\ profile_open = FALSE
  /\ cache_save_interval_minutes = 15           \* config.py:35
  /\ global_cache_timer = NoTimer               \* cache.py:17
  /\ orphan_timers = 0
  /\ last_main_op = "other"
  /\ gateway_stored = {}
  /\ fresh = [k \in Keys |-> FALSE]
  /\ last_load = NoLoad
  /\ cache_hits = 0
  /\ api_calls = 0
  /\ lk = [t \in LookupThreads |-> IdleLookup]
  /\ key_lookups = [k \in Keys |-> 0]
  /\ key_api_incs = [k \in Keys |-> 0]
  /\ key_hist = [k \in Keys |-> {}]
  /\ solo = NoSolo
  /\ InitStats
  /\ InitJobVars
  /\ batch_size = 1                          \* the job is followed by cache_job here
  /\ note_target = [n \in Notes |-> OLD]

\* the job of this specification runs one lookup at a time (api_call_workers and
\* max_workers set to 1, dialogs.py:191-195)
CacheThreads == {1}

NextCache ==
  \/ on_profile_opened
  \/ on_profile_closing
  \/ TimerTick
  \/ MainSaveDump
  \/ clear_api_cache
  \/ SettingsAcceptCache
  \/ StartCacheJob
  \/ BatchFlushOpen
  \/ BatchFlushDump
  \/ AfterBatchFlush
  \/ \E t \in CacheThreads, x \in KanaTexts : cache_job = "batch" /\ get_romaji_for_text(t, x)
  \/ \E t \in CacheThreads, x \in KanjiChars : cache_job = "batch" /\ get_kanji_info(t, x)
  \/ \E t \in CacheThreads : CheckCache(t)
  \/ \E t \in CacheThreads : HitLoad(t)
  \/ \E t \in CacheThreads : HitStore(t)
  \/ \E t \in CacheThreads : ApiLoad(t)
  \/ \E t \in CacheThreads : ApiStore(t)
  \/ \E t \in CacheThreads : PaceDelay(t)
  \/ \E t \in CacheThreads : NetworkCall(t)
  \/ \E t \in CacheThreads : StoreResult(t)
  \/ \E t \in CacheThreads : ReturnLookup(t)

SpecCache == InitCache /\ [][NextCache]_vars

(***************************************************************************)
(* SpecTimer: the periodic flush timer under every sequence of profile     *)
(* switches, accepted settings, timer ticks and cache clears.              *)
(***************************************************************************)
NextTimer ==
  \/ on_profile_opened
  \/ on_profile_closing
  \/ TimerTick
  \/ MainSaveDump
  \/ clear_api_cache
  \/ \E enabled \in BOOLEAN, minutes \in Intervals, saved \in BOOLEAN :
       SettingsAccept(enabled, minutes, pause_per_api_call_ms, saved)

SpecTimer == InitCache /\ [][NextTimer]_vars

(***************************************************************************)
(* Claims about the gateway, checked under SpecLookup.                     *)
(***************************************************************************)
AllReturned == \A t \in LookupThreads : ~InFlight(t)
NoneInFlightOn(k) == \A t \in LookupThreads : InFlight(t) => lk[t].key # k

\* C1: once every lookup has returned, cache_hits + api_calls equals the number of
\* lookups made, also when several worker threads look up concurrently (no
\* increment is lost).  The code's `+=` on the shared dict is a read followed by
\* a write, and two threads that read the same value lose one increment.
C1_NoIncrementLost ==
  AllReturned => cache_hits + api_calls = Attempts

\* C2, as claimed: with caching enabled, a key looked up twice, in any order or
\* interleaving, causes exactly one api_calls increment.
C2_Original_OneApiCallPerKey ==
  \A k \in Keys :
    ("disabled" \notin key_hist[k] /\ NoneInFlightOn(k) /\ key_lookups[k] >= 2)
      => key_api_incs[k] = 1

\* C2, amended: with caching enabled, a key looked up twice or more causes exactly
\* one api_calls increment provided the lookups of that key do not overlap in time
\* and its network call does not return null (a null result is not cached, and two
\* overlapping lookups of a key may both miss).
C2_OneApiCallPerKey ==
  \A k \in Keys :
    (key_hist[k] = {} /\ NoneInFlightOn(k) /\ key_lookups[k] >= 2)
      => key_api_incs[k] = 1

C2_Witness ==
  \E k \in Keys :
    /\ key_hist[k] = {} /\ NoneInFlightOn(k) /\ key_lookups[k] >= 2
    /\ key_api_incs[k] = 1 /\ global_api_cache[k] = Answer
    /\ \E t \in LookupThreads : lk[t].pc = "done" /\ lk[t].key = k /\ lk[t].path = "hit"

\* C3: each single lookup changes exactly one of the two accounting counters.  A
\* lookup answered from the cache executes the cache_hits increment once, never the
\* api_calls increment, and makes no network call; a lookup that misses executes the
\* api_calls increment once, never the cache_hits increment, and makes exactly one
\* network call.  For a lookup that ran while no other lookup was in flight, the
\* counters themselves moved by exactly that much between its start and its return.
C3_OneCounterPerLookup ==
  \A t \in LookupThreads :
    lk[t].pc = "done" =>
      /\ lk[t].path \in {"hit", "miss"}
      /\ lk[t].path = "hit" =>
            /\ lk[t].w_hits = 1 /\ lk[t].w_api = 0 /\ lk[t].nets = 0
            /\ solo.t = t => cache_hits = solo.hits + 1 /\ api_calls = solo.api
      /\ lk[t].path = "miss" =>
            /\ lk[t].w_hits = 0 /\ lk[t].w_api = 1 /\ lk[t].nets = 1
            /\ solo.t = t => cache_hits = solo.hits /\ api_calls = solo.api + 1

C3_Witness ==
  \E t \in LookupThreads :
    /\ lk[t].pc = "done" /\ lk[t].path = "hit" /\ solo.t = t
    /\ cache_hits = solo.hits + 1 /\ api_calls >= 1

(***************************************************************************)
(* Claims about the batch orchestrator, checked under SpecJob.             *)
(***************************************************************************)
JobStarted == job_pc \in {"loop", "submit", "tasks", "save", "flush", "pause", "return"}
JobOver == job_pc \in {"return", "done"}

\* C4: in every state of a job, also in the middle of a batch while record tasks run
\* or writes are applied, updated + unchanged + empty + error = processed.  The
\* record tasks count empty, unchanged and error while they run; processed is
\* counted for a record only after its whole batch has resolved.
C4_OutcomesSumToProcessed ==
  JobStarted =>
    updated_notes + unchanged_notes + empty_notes + error_notes = processed_notes

\* C5: from start_processing until the job returns, none of the counters processed,
\* updated, unchanged, empty, error decreases from one state to the next.  A record
\* task that stores its stale read of a counter after two siblings have counted
\* takes the counter down.
C5_CountersNeverDecrease ==
  [][JobStarted =>
       /\ processed_notes' >= processed_notes
       /\ updated_notes' >= updated_notes
       /\ unchanged_notes' >= unchanged_notes
       /\ empty_notes' >= empty_notes
       /\ error_notes' >= error_notes]_vars

\* C6: once cancellation was requested with batch i in flight (or just finished), no
\* record task of a batch after i is ever submitted, and every target-field write
\* applied so far is still in the record store.  Checked under SpecSession, where the
\* user may close the progress dialog and start again: the new start clears the
\* cancellation flag the running background task is about to read.
C6_NoBatchAfterCancel ==
  \A i \in cancel_batch :
    /\ \A n \in Notes : BatchOfNote(n) > i => task[n].pc = "none"
    /\ \A n \in Notes : task[n].written = "yes" => note_target[n] = GLOSS

\* C7: a cancellation request does not interrupt the batch in flight.  When the job
\* stops after a request made with batch i in flight, every record task of batch i
\* has run to completion, every "Updated" result of batch i has been through its
\* write (which is in the record store unless the write itself raised), processed
\* was incremented once for each record of batch i, and save_api_cache() was called
\* for batch i.
C7_CancelLetsBatchFinish ==
  \A i \in cancel_batch :
    JobOver =>
      /\ flushes >= i + 1
      /\ \A n \in BatchIds(i) :
           /\ Resolved(n)
           /\ task[n].counted = 1
           /\ task[n].status = "Updated" => task[n].written \in {"yes", "failed"}
           /\ task[n].written = "yes" => note_target[n] = GLOSS

C7_Witness ==
  /\ job_pc = "done" /\ is_cancelled /\ cancel_batch = {0} /\ NumBatches >= 2
  /\ flushes = 1
  /\ \E n \in BatchIds(0) : task[n].written = "yes" /\ note_target[n] = GLOSS
  /\ \A n \in BatchIds(0) : task[n].counted = 1
  /\ \A n \in BatchIds(1) : task[n].pc = "none"

\* C8: batches are strictly sequential.  Whenever a record task of a later batch has
\* been submitted, every task of each earlier batch has resolved, its result has
\* been through the write loop and been counted, and save_api_cache() has been
\* called for that earlier batch.
C8_BatchesSequential ==
  \A n, m \in Notes :
    (BatchOfNote(m) > BatchOfNote(n) /\ task[m].pc # "none") =>
      /\ Resolved(n)
      /\ task[n].counted = 1
      /\ task[n].status = "Updated" => task[n].written \in {"yes", "failed"}
      /\ flushes >= BatchOfNote(n) + 1

C8_Witness ==
  \E n, m \in Notes :
    /\ BatchOfNote(m) = BatchOfNote(n) + 1
    /\ Executing(m)
    /\ task[n].written = "yes" /\ task[n].counted = 1
    /\ flushes = BatchOfNote(m)

RECURSIVE SumRunning(_)
SumRunning(S) ==
  IF S = {} THEN 0
  ELSE LET n == CHOOSE x \in S : TRUE IN Running(n) + SumRunning(S \ {n})

\* C9: at every instant of a job at most max_workers record tasks are executing, each
\* record task has at most api_call_workers lookups executing, lookups execute only
\* inside an executing record task, and so the lookups executing at once never
\* exceed max_workers * api_call_workers.  Checked under SpecPools.
C9_BoundedConcurrency ==
  /\ Cardinality({n \in Notes : Executing(n)}) <= max_workers
  /\ \A n \in Notes : Running(n) <= api_call_workers
  /\ \A n \in Notes : Running(n) > 0 => Executing(n)
  /\ SumRunning(Notes) <= max_workers * api_call_workers

C9_Witness ==
  /\ Cardinality({n \in Notes : Executing(n)}) = max_workers
  /\ \E n \in Notes : task[n].pc = "queued"
  /\ \A n \in Notes : Executing(n) => Running(n) = api_call_workers
  /\ \E n \in Notes : pool[n].qr > 0
  /\ SumRunning(Notes) = max_workers * api_call_workers

\* C11: a record whose source field is missing, blank or whitespace-only is counted in
\* empty exactly once (one execution of the empty increment, and the counter itself is
\* 1 when it is the only such record of the job), no lookup executor is opened for
\* it, its target field is never written, and processed is incremented once for it.
\* Checked under SpecPools, where every record starts with the same target field.
C11_BlankSourceCountedEmpty ==
  /\ \A n \in Notes :
       task[n].src = "blank" =>
         /\ pool[n].phase = "none"
         /\ task[n].written = "no" /\ note_target[n] = OLD
         /\ task[n].status \in {"none", "Empty"}
         /\ task[n].empties <= 1 /\ task[n].counted <= 1
         /\ Resolved(n) => task[n].status = "Empty" /\ task[n].empties = 1
         /\ job_pc \in {"flush", "pause", "loop", "return", "done"} => task[n].counted = 1
  /\ \A n \in Notes : task[n].status = "Empty" => task[n].src = "blank"
  /\ (JobOver /\ Cardinality({n \in Notes : task[n].src = "blank"}) = 1)
       => empty_notes = 1

C11_Witness ==
  /\ job_pc = "done"
  /\ \E n, m \in Notes :
       /\ task[n].src = "blank" /\ task[n].status = "Empty" /\ task[n].counted = 1
       /\ task[m].status = "Updated" /\ task[m].written = "yes" /\ pool[m].phase = "closed"
  /\ empty_notes = 1 /\ processed_notes = NumNotes

\* C10: an exception raised while one record is processed is caught inside that
\* record's task: the task resolves with an "Error" result after executing the error
\* increment exactly once, no exception reaches the orchestrator, every record of the
\* batch is still counted, and a job that was not cancelled still runs and counts
\* every record of every batch.  With one record per batch (no concurrent sibling)
\* the error counter itself equals the number of records that raised.
C10_TaskExceptionContained ==
  /\ job_pc # "failed"
  /\ \A n \in Notes :
       /\ task[n].status # "Raised"
       /\ task[n].errs <= 1
       /\ task[n].status = "Error" => Resolved(n) /\ task[n].errs = 1
  /\ job_pc \in {"flush", "pause"} =>
       \A n \in BatchIds(batch_index) : Resolved(n) /\ task[n].counted = 1
  /\ (JobOver /\ ~is_cancelled) =>
       /\ \A n \in Notes : Resolved(n) /\ task[n].counted = 1
       /\ processed_notes = NumNotes
  /\ (JobStarted /\ batch_size = 1) =>
       error_notes = Cardinality({n \in Notes : task[n].errs = 1})

C10_Witness ==
  /\ job_pc = "done" /\ ~is_cancelled /\ NumBatches >= 2
  /\ \E n, m \in BatchIds(0) :
       /\ n # m
       /\ task[n].status = "Error" /\ task[n].errs = 1
       /\ task[m].status = "Updated" /\ task[m].written = "yes"
  /\ \A n \in Notes : task[n].counted = 1
  /\ processed_notes = NumNotes


(***************************************************************************)
(* Claims about the cache (SpecCache)                                      *)
(***************************************************************************)
\* C12: after the flush that follows a batch, made with caching enabled and
\* without an I/O error, the persisted cache contains every entry the gateway
\* stored in that batch and in earlier batches (since the last clear), whatever
\* loads and clears came before.
C12_FlushPersistsGatewayEntries ==
  (cache_job = "flushed_ok" /\ cache_enabled /\ cache_file.state = "valid")
    => \A k \in gateway_stored : cache_file.data[k] # NoEntry

\* C13: a flush is atomic with respect to the file: at every point of a flush,
\* where a crash or a failed write can stop it, the file is either the complete
\* cache it held before the flush or the complete new cache, never an empty or
\* partial one.
C13_FlushIsAtomic ==
  \A th \in SaverThreads :
    saver[th].pc = "dump" =>
      cache_file \in {saver[th].before, GoodFile(module_cache)}

\* C14: after clear(), and until the gateway stores the key again or a load
\* runs, the mapping the gateway consults has no entry for any key, so no lookup
\* of such a key takes the hit path: it is a miss with a network call, also for
\* keys an earlier job of the session stored.
C14_ClearEmptiesGatewayCache ==
  /\ \A k \in Keys : fresh[k] => global_api_cache[k] = NoEntry
  /\ \A t \in LookupThreads :
       (lk[t].key # NoKey /\ fresh[lk[t].key]) => lk[t].path # "hit"

\* C15: the in-memory cache never maps a key to null: neither the dict the
\* gateway consults nor the dict cache.py loads and saves holds None for a key,
\* given that the file found at start holds none.
C15_NoNullInCache ==
  \A k \in Keys : global_api_cache[k] # None /\ module_cache[k] # None

\* a lookup made with caching enabled whose network call gave null has passed
\* the store step, after a load and with another key already cached
C15_Witness ==
  /\ profile_open /\ cache_enabled
  /\ \E t \in LookupThreads :
       /\ lk[t].pc = "done" /\ lk[t].path = "miss" /\ lk[t].res = None
       /\ global_api_cache[lk[t].key] = NoEntry
       /\ \E k \in Keys \ {lk[t].key} : global_api_cache[k] = Answer

\* a step that runs load_api_cache (the profile opens) keeps mappings and file
C16_LoadWhileDisabled ==
  (~profile_open /\ profile_open') =>
     /\ module_cache' = module_cache
     /\ global_api_cache' = global_api_cache
     /\ cache_file' = cache_file

\* a step that enters or ends save_api_cache keeps mappings and file
C16_FlushWhileDisabled ==
  \A th \in SaverThreads :
    ((saver[th].pc = "idle" /\ saver'[th].pc # "idle") \/ saver[th].pc = "skip") =>
       /\ saver'[th].pc \in {"skip", "idle"}
       /\ module_cache' = module_cache
       /\ global_api_cache' = global_api_cache
       /\ cache_file' = cache_file

\* the cache test of a lookup is a miss and no lookup step changes a mapping
C16_LookupWhileDisabled ==
  \A t \in LookupThreads :
    /\ (lk[t].pc = "check" /\ lk'[t].pc # "check") =>
          lk'[t].path = "miss" /\ lk'[t].pc = "api_load"
    /\ lk'[t] # lk[t] =>
          module_cache' = module_cache /\ global_api_cache' = global_api_cache

\* C16: while caching is disabled, a lookup's cache test is a miss (so the
\* lookup goes on to the network call and the api_calls increment, not the
\* cache_hits one), no lookup step changes a mapping, and neither a load nor a
\* flush called in that state changes the in-memory mappings or the file.
C16_DisabledCacheUntouched ==
  [][~cache_enabled =>
       C16_LoadWhileDisabled /\ C16_FlushWhileDisabled /\ C16_LookupWhileDisabled]_vars

\* C17: load() never fails: when the cache file is absent, unreadable or not
\* valid JSON, the call returns normally, leaving an empty in-memory cache (and
\* the session goes on: the profile is open for lookups and flushes).
C17_LoadNeverFails ==
  [][(~profile_open /\ profile_open' /\ cache_file.state \in {"absent", "invalid"}) =>
       /\ ~last_load'.raised
       /\ last_load'.from \in {"absent", "invalid", "off"}
       /\ module_cache' = EmptyCache
       /\ ~api_client_imported => global_api_cache' = EmptyCache]_vars

\* after a load that found a damaged file, a lookup stored its answer and the
\* flush after the batch wrote it to a valid file
C17_Witness ==
  /\ last_load = [from |-> "invalid", raised |-> FALSE]
  /\ cache_job = "flushed_ok"
  /\ cache_file.state = "valid"
  /\ \E k \in Keys : k \in gateway_stored /\ cache_file.data[k] = Answer

(***************************************************************************)
(* Claims about the periodic flush timer (SpecTimer)                       *)
(***************************************************************************)
\* C18: at most one periodic flush timer exists, and right after a call of the
\* schedule function the timer is active exactly when caching is enabled and
\* the configured interval is positive, and an active timer's period is the
\* configured interval.
C18_OneTimerFollowsSettings ==
  /\ orphan_timers = 0
  /\ last_main_op = "schedule" =>
       /\ global_cache_timer.active <=>
            (cache_enabled /\ cache_save_interval_minutes > 0)
       /\ global_cache_timer.active =>
            global_cache_timer.interval = IntervalMs(cache_save_interval_minutes)

\* the schedule call of an accepted settings dialog has restarted the existing
\* timer with a period other than the default one
C18_Witness ==
  /\ last_main_op = "schedule"
  /\ global_cache_timer.active
  /\ global_cache_timer.interval = IntervalMs(30)
  /\ cache_save_interval_minutes = 30

(***************************************************************************)
(* Claims about the network step of the gateway (SpecLookup, SpecPacing)   *)
(***************************************************************************)
\* C19: a gateway lookup returns a value or null whatever the network call
\* does (timeout, status outside 2xx, malformed body): no lookup is ever left
\* by an exception, a lookup whose call failed ends with null, and the other
\* lookups are not affected by it.
C19_LookupNeverRaises ==
  \A t \in LookupThreads :
    /\ lk[t].pc # "raised"
    /\ lk[t].pc \in {"store", "done"} => lk[t].res \in {None, Answer}
    /\ (lk[t].pc \in {"store", "done"} /\ lk[t].path = "miss") => lk[t].nets = 1

\* one lookup has returned null after a failed network call and another lookup
\* has returned an answer from the network
C19_Witness ==
  \E t, u \in LookupThreads :
    /\ t # u
    /\ lk[t].pc = "done" /\ lk[t].path = "miss" /\ lk[t].res = None
    /\ lk[u].pc = "done" /\ lk[u].path = "miss" /\ lk[u].res = Answer
    /\ "failed" \in key_hist[lk[t].key]

\* C20: the pacing delay is applied only on the miss path and before the
\* network call: a lookup answered from the cache never waits, and a network
\* call made by a lookup that read a positive pause_per_api_call_ms is preceded
\* by exactly one delay (by none when it read 0).
C20_DelayOnlyBeforeNetworkCall ==
  \A t \in LookupThreads :
    /\ lk[t].path # "miss" => lk[t].delays = 0 /\ lk[t].nets = 0
    /\ lk[t].pc \in {"check", "hit_load", "hit_store", "api_load", "api_store", "pace"} =>
         lk[t].delays = 0 /\ lk[t].nets = 0
    /\ lk[t].pc \in {"network", "store"} \/ lk[t].nets > 0 =>
         /\ lk[t].pause_read \in PauseValues
         /\ lk[t].delays = IF lk[t].pause_read > 0 THEN 1 ELSE 0

\* one lookup was answered from the cache without a delay while another made
\* its network call after one delay
C20_Witness ==
  \E t, u \in LookupThreads :
    /\ lk[t].pc = "done" /\ lk[t].path = "hit" /\ lk[t].delays = 0
    /\ lk[u].pc = "done" /\ lk[u].path = "miss" /\ lk[u].nets = 1
    /\ lk[u].delays = 1 /\ lk[u].pause_read = 50

(***************************************************************************)
(* Claims about the batch command and the job (SpecJob, SpecSession)       *)
(***************************************************************************)
\* C26: when the validation of the batch command does not pass (note type not
\* found, overwrite declined, creation declined, field not added, no records
\* found), no job starts: the step leaves the progress counters and the
\* cancellation flag, the job, its record tasks, the lookups, the record
\* fields and the dialog as they were.
C26_FailedValidationStartsNothing ==
  [][(validation' # "passed" /\ validation' # validation) =>
       UNCHANGED <<stats_vars, job_vars, gateway_vars, pool, ui_vars, cache_vars>>]_vars

\* the command was stopped because the user declined to create the target
\* field, and no job has started
C26_Witness ==
  /\ validation = "creation declined"
  /\ job_pc = "idle" /\ ~dialog_open
  /\ \A n \in Notes : task[n] = NoTask

\* C27: at most one job is in flight at any time: while the background task of
\* a job is running no further job has been started, also after the progress
\* dialog of the running job was closed or its cancellation was requested.
C27_OneJobInFlight ==
  JobInFlight => other_job = "none"

\* C29: a record with non-blank source text is counted unchanged only when the
\* rendered markup equals the content of its target field; whenever they
\* differ, also when the markup is empty and the field is not, the record is
\* marked Updated and, once its result is saved, the field holds the markup.
C29_UpdatedWheneverMarkupDiffers ==
  \A n \in Notes :
    task[n].html # "none" =>
      /\ task[n].pc = "unchanged_store" => task[n].html = note_target[n]
      /\ (task[n].status = "Updated" /\ task[n].written = "yes") =>
            note_target[n] = task[n].html

\* C30: when a batch has finished, the job sleeps the pause between batches
\* only if it goes on to a next batch: never after the last batch, and never
\* when the cancellation was requested by then (the job stops at once instead).
C30_PauseOnlyBeforeNextBatch ==
  [][(job_pc = "pause" /\ job_pc' = "loop") =>
       (PauseDue <=> (~is_cancelled /\ batch_index < NumBatches - 1))]_vars

(***************************************************************************)
(* The log file (logger.py), SpecLog.  A line of the log is written as the  *)
(* number of the job that was running when it was written, 0 before the     *)
(* first job.                                                               *)
(***************************************************************************)
MaxLogLines == 5
MaxJobs == 3

\* processor.py:73-75  the first statements of the background task:
\*   from .logger import log_file_mode;  log_file_mode = "w"
\* The assignment binds a local name of the function; logger.log_file_mode, the
\* name write_log reads (logger.py:17, 23), keeps its value.
StartJobLog ==
  /\ log_epoch < MaxJobs
  /\ log_epoch' = log_epoch + 1
  /\ UNCHANGED <<log_file_mode, log>>
  /\ UNCHANGED <<gateway_vars, stats_vars, job_vars, ui_vars, pool, cache_vars, validation, asm, save_call>>

\* logger.py:22-28  open(LOG_FILE_PATH, log_file_mode) and write one line: mode "w"
\* truncates the file first, mode "a" keeps it; afterwards the mode is "a"
WrittenLog(line) == IF log_file_mode = "w" THEN <<line>> ELSE Append(log, line)

\* logger.py:15-30  write_log; when the file cannot be opened the exception is
\* printed (lines 29-30) and neither the file nor the mode changes
write_log ==
  /\ log_file_mode = "w" \/ Len(log) < MaxLogLines
  /\ \E opened \in BOOLEAN :
       IF opened
       THEN /\ log' = WrittenLog(log_epoch)
            /\ log_file_mode' = "a"
       ELSE UNCHANGED <<log, log_file_mode>>
  /\ UNCHANGED log_epoch
  /\ UNCHANGED <<gateway_vars, stats_vars, job_vars, ui_vars, pool, cache_vars, validation, asm, save_call>>

\* logger.py:32-41  clear_log, the button of the log viewer (dialogs.py:574-577):
\* set the mode to "w", truncate the file, write_log("Log file cleared.")
clear_log ==
  /\ \E truncated \in BOOLEAN, opened \in BOOLEAN :
       IF ~truncated
       THEN /\ log_file_mode' = "w"
            /\ UNCHANGED log
       ELSE IF opened
       THEN /\ log' = <<log_epoch>>
            /\ log_file_mode' = "a"
       ELSE /\ log' = <<>>
            /\ log_file_mode' = "w"
  /\ UNCHANGED log_epoch
  /\ UNCHANGED <<gateway_vars, stats_vars, job_vars, ui_vars, pool, cache_vars, validation, asm, save_call>>

NextLog ==
  \/ StartJobLog
  \/ write_log
  \/ clear_log

SpecLog == InitPools /\ [][NextLog]_vars

\* C28: the log is rotated at the start of each job: once the running job has
\* written a line, the log holds lines of that job only (its first line replaced
\* all earlier lines, its later lines were appended).
C28_LogHoldsCurrentJobOnly ==
  (log_epoch > 0 /\ \E i \in 1..Len(log) : log[i] = log_epoch) =>
     \A i \in 1..Len(log) : log[i] = log_epoch

(***************************************************************************)
(* The markup of a glossary (glossary_generator.py:80-166).  A formatted    *)
(* template is written as the record of the values put into it, a joined    *)
(* string as the sequence of its parts.                                     *)
(***************************************************************************)
NoEntries == [hiragana_entries |-> <<>>, katakana_entries |-> <<>>, kanji_entries |-> <<>>]

\* mutant of Truthy: every answer counts as present
AlwaysTruthy(answer) == TRUE

\* the truth value Python gives a lookup answer: None and "" are false
Truthy(answer) == answer # None /\ answer # ""

\* glossary_generator.py:98-107  _process_kana_character
process_kana_character(char, romaji, cfg_gen, entries) ==
  IF is_hiragana(char) /\ cfg_gen.include_hiragana
  THEN [entries EXCEPT !.hiragana_entries = Append(@, [kana |-> char, romaji |-> romaji])]
  ELSE IF is_katakana(char) /\ cfg_gen.include_katakana
  THEN [entries EXCEPT !.katakana_entries = Append(@, [kana |-> char, romaji |-> romaji])]
  ELSE entries

\* glossary_generator.py:119  the sort key (x['type'], x['reading']): "Kun" sorts
\* before "On", readings of one type by code point
TypeRank == ("Kun" :> 0) @@ ("On" :> 1)
KeyLE(a, b) ==
  \/ TypeRank[a.type] < TypeRank[b.type]
  \/ a.type = b.type /\ a.reading <= b.reading

\* mutant of sorted_readings: the readings in the order they were collected
ReadingsAsCollected(readings) == readings

\* glossary_generator.py:119  sorted(reading_results, key=...), a stable sort
RECURSIVE sorted_readings(_)
sorted_readings(readings) ==
  IF readings = <<>> THEN <<>>
  ELSE LET n    == Len(readings)
           s    == sorted_readings(SubSeq(readings, 1, n - 1))
           x    == readings[n]
           k    == Cardinality({i \in DOMAIN s : KeyLE(s[i], x)})
       IN  SubSeq(s, 1, k) \o <<x>> \o SubSeq(s, k + 1, Len(s))

\* glossary_generator.py:121-124  one reading, with or without its romaji
reading_html(reading_data) ==
  IF Truthy(reading_data.romaji)
  THEN [template |-> "kanji_reading", type |-> reading_data.type,
        reading |-> reading_data.reading, romaji |-> reading_data.romaji]
  ELSE [template |-> "kanji_reading_no_romaji", type |-> reading_data.type,
        reading |-> reading_data.reading, romaji |-> ""]

\* glossary_generator.py:109-138  _process_kanji_character
process_kanji_character(char, kanji_info, reading_results, cfg_gen, entries) ==
  IF kanji_info.is_none \/ ~kanji_info.has_meanings THEN entries
  ELSE LET readings_for_char == sorted_readings(reading_results)
           readings_html == [i \in DOMAIN readings_for_char |->
                               reading_html(readings_for_char[i])]
           meanings_html == IF cfg_gen.include_kanji_meanings /\ kanji_info.meanings # <<>>
                            THEN kanji_info.meanings ELSE <<>>
       IN  [entries EXCEPT !.kanji_entries =
              Append(@, [kanji |-> char, readings_html |-> readings_html,
                         meanings_html |-> meanings_html])]

\* glossary_generator.py:80-92  the entries of the characters from the i-th on, in
\* the order of unique_chars
RECURSIVE generate_entries(_, _, _, _, _, _)
generate_entries(unique_chars, i, api_results, reading_results, cfg_gen, entries) ==
  IF i > Len(unique_chars) THEN entries
  ELSE LET char == unique_chars[i]
           next ==
             IF char \notin DOMAIN api_results THEN entries
             ELSE LET result == api_results[char]
                  IN  IF result.type = "kana" /\ Truthy(result.romaji)
                      THEN process_kana_character(char, result.romaji, cfg_gen, entries)
                      ELSE IF result.type = "kanji" /\ ~result.info.is_none
                      THEN process_kanji_character(char, result.info,
                             IF char \in DOMAIN reading_results
                             THEN reading_results[char] ELSE <<>>,
                             cfg_gen, entries)
                      ELSE entries
       IN  generate_entries(unique_chars, i + 1, api_results, reading_results, cfg_gen, next)

\* mutant of build_final_glossary_html: the kanji section first
KanjiSectionFirst(entries, cfg_gen) ==
  (IF entries.kanji_entries # <<>> /\ cfg_gen.include_kanji
   THEN <<[section |-> "kanji_section", entries |-> entries.kanji_entries]>>
   ELSE <<>>)
  \o
  (IF entries.hiragana_entries # <<>> /\ cfg_gen.include_hiragana
   THEN <<[section |-> "hiragana_section", entries |-> entries.hiragana_entries]>>
   ELSE <<>>)
  \o
  (IF entries.katakana_entries # <<>> /\ cfg_gen.include_katakana
   THEN <<[section |-> "katakana_section", entries |-> entries.katakana_entries]>>
   ELSE <<>>)

\* glossary_generator.py:140-166  _build_final_glossary_html
build_final_glossary_html(entries, cfg_gen) ==
  (IF entries.hiragana_entries # <<>> /\ cfg_gen.include_hiragana
   THEN <<[section |-> "hiragana_section", entries |-> entries.hiragana_entries]>>
   ELSE <<>>)
  \o
  (IF entries.katakana_entries # <<>> /\ cfg_gen.include_katakana
   THEN <<[section |-> "katakana_section", entries |-> entries.katakana_entries]>>
   ELSE <<>>)
  \o
  (IF entries.kanji_entries # <<>> /\ cfg_gen.include_kanji
   THEN <<[section |-> "kanji_section", entries |-> entries.kanji_entries]>>
   ELSE <<>>)

(***************************************************************************)
(* The text functions on their own, SpecText: a text of code points from    *)
(* the ends of the three classes and from around them is extracted,         *)
(* described character by character, and its kana are rendered.             *)
(***************************************************************************)
MaxTextLen == 3

\* 'a', U+3000 (ideographic space), U+303F, U+3040, U+309F, U+30A0, U+30FC, U+30FF,
\* U+3100, U+4E00, U+9FAF, U+9FB0, U+20000, U+2A6DF
TextAlphabet ==
  {97, 12288, 12351, 12352, 12447, 12448, LONG_VOWEL_MARK, 12543, 12544,
   19968, 40879, 40880, 131072, 173791}

SourceTexts == UNION {[1..n -> TextAlphabet] : n \in 0..MaxTextLen}

\* the text handed to the text functions
OpenText ==
  /\ asm.pc = "idle"
  /\ \E text \in SourceTexts : asm' = [NoAsm EXCEPT !.pc = "text", !.text = text]
  /\ UNCHANGED <<gateway_vars, stats_vars, job_vars, ui_vars, pool, cache_vars, log_vars, validation, save_call>>

\* glossary_generator.py:18  unique_chars = extract_unique_japanese_chars(text)
ExtractText ==
  /\ asm.pc = "text"
  /\ asm' = [asm EXCEPT !.pc = "extracted",
                        !.unique_chars = extract_unique_japanese_chars(asm.text)]
  /\ UNCHANGED <<gateway_vars, stats_vars, job_vars, ui_vars, pool, cache_vars, log_vars, validation, save_call>>

\* text_utils.py:68-89  get_character_info of every character of the text
DescribeText ==
  /\ asm.pc = "extracted"
  /\ asm' = [asm EXCEPT !.pc = "described",
                        !.info = [i \in DOMAIN asm.text |-> get_character_info(asm.text[i])]]
  /\ UNCHANGED <<gateway_vars, stats_vars, job_vars, ui_vars, pool, cache_vars, log_vars, validation, save_call>>

\* glossary_generator.py:80-107, 140-166  the kana of the text rendered, every
\* romanization lookup having answered, under each setting of the two kana categories
RenderKana ==
  /\ asm.pc = "described"
  /\ \E include_hiragana \in BOOLEAN, include_katakana \in BOOLEAN :
       LET cfg_gen == [DefaultGeneral EXCEPT !.include_hiragana = include_hiragana,
                                             !.include_katakana = include_katakana]
           kana == {c \in Range(asm.unique_chars) : is_hiragana(c) \/ is_katakana(c)}
           api_results == [c \in kana |-> [type |-> "kana", romaji |-> "romaji"]]
           entries == generate_entries(asm.unique_chars, 1, api_results, <<>>,
                                       cfg_gen, NoEntries)
       IN  asm' = [asm EXCEPT !.pc = "done", !.cfg_gen = cfg_gen,
                              !.api_results = api_results,
                              !.html = build_final_glossary_html(entries, cfg_gen)]
  /\ UNCHANGED <<gateway_vars, stats_vars, job_vars, ui_vars, pool, cache_vars, log_vars, validation, save_call>>

NextText ==
  \/ OpenText
  \/ ExtractText
  \/ DescribeText
  \/ RenderKana

SpecText == InitPools /\ [][NextText]_vars

(***************************************************************************)
(* Claims about the text functions (SpecText)                               *)
(***************************************************************************)
\* C24: extract_unique(text) holds exactly the hiragana, katakana and kanji
\* characters of the text that are not white space, each of them once, in the
\* order of their first occurrence in the text; every other character is dropped.
C24_ExtractUniqueInFirstOccurrenceOrder ==
  asm.pc \in {"extracted", "described", "done"} =>
    LET u == asm.unique_chars
        t == asm.text
    IN  /\ \A i \in DOMAIN t :
             (t[i] \in Range(u)) <=>
               ((is_hiragana(t[i]) \/ is_katakana(t[i]) \/ is_kanji(t[i])) /\ ~isspace(t[i]))
        /\ Range(u) \subseteq Range(t)
        /\ \A i, j \in DOMAIN u : i # j => u[i] # u[j]
        /\ \A i, j \in DOMAIN u :
             i < j => \E p \in DOMAIN t : t[p] = u[i] /\ \A q \in 1..p : t[q] # u[j]

C24_Witness ==
  /\ asm.pc = "extracted"
  /\ asm.text = <<12543, 12288, 12543>> \/ asm.text = <<19968, 12352, 19968>>
     \/ asm.text = <<12448, 97, 12352>>
  /\ Len(asm.unique_chars) = Cardinality(Range(asm.text) \ {97, 12288})

\* the classification of one described character: one of the four types, the type
\* "other" exactly when no predicate holds, and away from U+30FC at most one
\* predicate, which the type names; U+30FC is both kana and typed hiragana
ClassifiedOnce(d, c) ==
  /\ d.type \in {"hiragana", "katakana", "kanji", "other"}
  /\ d.type = "other" <=> ~(d.is_hiragana \/ d.is_katakana \/ d.is_kanji)
  /\ ~(d.is_kanji /\ (d.is_hiragana \/ d.is_katakana))
  /\ c # LONG_VOWEL_MARK =>
       /\ ~(d.is_hiragana /\ d.is_katakana)
       /\ d.is_hiragana => d.type = "hiragana"
       /\ d.is_katakana => d.type = "katakana"
       /\ d.is_kanji => d.type = "kanji"
  /\ c = LONG_VOWEL_MARK => d.is_hiragana /\ d.is_katakana /\ d.type = "hiragana"

\* the sections of the markup that hold an entry of the character
SectionsOf(c) ==
  {asm.html[i].section : i \in {k \in DOMAIN asm.html :
     /\ asm.html[k].section # "kanji_section"
     /\ \E e \in Range(asm.html[k].entries) : e.kana = c}}

MaxChars == 3

\* U+3042 (hiragana a), U+30AB (katakana ka), U+65E5 and U+672C (kanji)
AsmAlphabet == {12354, 12459, 26085, 26412}
AsmTexts == UNION {[1..n -> AsmAlphabet] : n \in 1..MaxChars}

\* the settings of config['general'] a call is made under: the defaults, and each
\* switch turned off alone
Generals ==
  {DefaultGeneral,
   [DefaultGeneral EXCEPT !.include_hiragana = FALSE],
   [DefaultGeneral EXCEPT !.include_katakana = FALSE],
   [DefaultGeneral EXCEPT !.include_kanji = FALSE],
   [DefaultGeneral EXCEPT !.include_romaji = FALSE],
   [DefaultGeneral EXCEPT !.include_kanji_meanings = FALSE]}

\* the lookups answered with None (api_client.py:45-47, 80-82): none, the kana
\* U+30AB, the reading U+3072, the kanji U+672C
NullKeySets == {{}, {12459}, {12402}, {26412}}

\* the calls made: every setting with every lookup answered, and the defaults with
\* each set of unanswered lookups
Calls ==
  {[cfg_gen |-> g, null_keys |-> {}] : g \in Generals}
  \cup {[cfg_gen |-> DefaultGeneral, null_keys |-> k] : k \in NullKeySets}

\* api_client.py:13-47  get_romaji_for_text: the answer of the romanization service
\* for the kana and for the readings (one character each)
RomajiTable ==
  (12354 :> "a") @@ (12459 :> "ka") @@ (12402 :> "hi") @@ (12363 :> "ka")
  @@ (12491 :> "ni") @@ (12507 :> "ho")
romaji_answer(text, null_keys) == IF text \in null_keys THEN None ELSE RomajiTable[text]

\* api_client.py:49-82  get_kanji_info: the answer of the kanji dictionary service
NoneInfo == [is_none |-> TRUE, has_meanings |-> FALSE, meanings |-> <<>>,
             kun_readings |-> <<>>, on_readings |-> <<>>]
KanjiTable ==
  (26085 :> [is_none |-> FALSE, has_meanings |-> TRUE, meanings |-> <<"day", "sun">>,
             kun_readings |-> <<12402, 12363>>, on_readings |-> <<12491>>])
  @@ (26412 :> [is_none |-> FALSE, has_meanings |-> TRUE, meanings |-> <<"book">>,
                kun_readings |-> <<>>, on_readings |-> <<12507>>])
kanji_answer(char, null_keys) == IF char \in null_keys THEN NoneInfo ELSE KanjiTable[char]

\* a future of the executor: queued, running, finished, or collected by as_completed
Future(kind, char, reading, type) ==
  [kind |-> kind, char |-> char, reading |-> reading, type |-> type, st |-> "queued"]

\* glossary_generator.py:26  ThreadPoolExecutor(max_workers=...): a free worker takes
\* the oldest queued future at once
RECURSIVE StartQueued(_, _)
StartQueued(futures, workers) ==
  LET queued  == {i \in DOMAIN futures : futures[i].st = "queued"}
      running == {i \in DOMAIN futures : futures[i].st = "running"}
  IN  IF queued = {} \/ Cardinality(running) >= workers THEN futures
      ELSE LET i == CHOOSE q \in queued : \A r \in queued : q <= r
           IN  StartQueued([futures EXCEPT ![i].st = "running"], workers)

Uncollected(futures, kind) ==
  {i \in DOMAIN futures : futures[i].kind = kind /\ futures[i].st # "collected"}

\* glossary_generator.py:46, 52, 67  the as_completed loop the call is in
CollectLoop(futures) ==
  IF Uncollected(futures, "kana") # {} THEN "collect_kana"
  ELSE IF Uncollected(futures, "kanji") # {} THEN "collect_kanji"
  ELSE IF Uncollected(futures, "reading") # {} THEN "collect_readings"
  ELSE "render"

\* glossary_generator.py:12-44  the call: the unique characters, the executor, one
\* future per kana character, then one per kanji character
generate_glossary_data ==
  /\ asm.pc = "idle"
  /\ \E text \in AsmTexts, call \in Calls, workers \in 1..api_call_workers :
       LET cfg_gen == call.cfg_gen
           null_keys == call.null_keys
           unique_chars == extract_unique_japanese_chars(text)
           kana  == IF cfg_gen.include_hiragana \/ cfg_gen.include_katakana
                    THEN SelectSeq(unique_chars, LAMBDA c : is_hiragana(c) \/ is_katakana(c))
                    ELSE <<>>
           kanji == IF cfg_gen.include_kanji
                    THEN SelectSeq(unique_chars, is_kanji)
                    ELSE <<>>
           futures == StartQueued(
                        [i \in DOMAIN kana |-> Future("kana", kana[i], 0, "")]
                        \o [i \in DOMAIN kanji |-> Future("kanji", kanji[i], 0, "")],
                        workers)
       IN  asm' = [NoAsm EXCEPT !.pc = CollectLoop(futures), !.text = text,
                                !.cfg_gen = cfg_gen, !.null_keys = null_keys,
                                !.max_workers = workers,
                                !.unique_chars = unique_chars, !.futures = futures]
  /\ UNCHANGED <<gateway_vars, stats_vars, job_vars, ui_vars, pool, cache_vars, log_vars, validation, save_call>>

\* a running lookup returns, and its worker takes the next queued future
FinishFuture ==
  /\ \E i \in DOMAIN asm.futures :
       /\ asm.futures[i].st = "running"
       /\ asm' = [asm EXCEPT !.futures =
                    StartQueued([asm.futures EXCEPT ![i].st = "finished"], asm.max_workers)]
  /\ UNCHANGED <<gateway_vars, stats_vars, job_vars, ui_vars, pool, cache_vars, log_vars, validation, save_call>>

\* glossary_generator.py:46-49  as_completed(kana_futures) yields a finished future
CollectKanaResult ==
  /\ asm.pc = "collect_kana"
  /\ \E i \in DOMAIN asm.futures :
       /\ asm.futures[i].kind = "kana" /\ asm.futures[i].st = "finished"
       /\ LET char == asm.futures[i].char
              futures == [asm.futures EXCEPT ![i].st = "collected"]
          IN  asm' = [asm EXCEPT
                        !.futures = futures,
                        !.api_results = (char :> [type |-> "kana",
                                                  romaji |-> romaji_answer(char, asm.null_keys),
                                                  info |-> NoneInfo]) @@ @,
                        !.collected = Append(@, char),
                        !.pc = CollectLoop(futures)]
  /\ UNCHANGED <<gateway_vars, stats_vars, job_vars, ui_vars, pool, cache_vars, log_vars, validation, save_call>>

\* glossary_generator.py:51-63  as_completed(kanji_futures) yields a finished future;
\* with romaji enabled one future per reading is submitted, Kun readings first
CollectKanjiResult ==
  /\ asm.pc = "collect_kanji"
  /\ \E i \in DOMAIN asm.futures :
       /\ asm.futures[i].kind = "kanji" /\ asm.futures[i].st = "finished"
       /\ LET char == asm.futures[i].char
              kanji_info == kanji_answer(char, asm.null_keys)
              readings ==
                IF ~kanji_info.is_none /\ asm.cfg_gen.include_romaji
                THEN [k \in DOMAIN kanji_info.kun_readings |->
                        Future("reading", char, kanji_info.kun_readings[k], "Kun")]
                     \o [k \in DOMAIN kanji_info.on_readings |->
                           Future("reading", char, kanji_info.on_readings[k], "On")]
                ELSE <<>>
              futures == StartQueued([asm.futures EXCEPT ![i].st = "collected"] \o readings,
                                     asm.max_workers)
          IN  asm' = [asm EXCEPT
                        !.futures = futures,
                        !.api_results = (char :> [type |-> "kanji", romaji |-> None,
                                                  info |-> kanji_info]) @@ @,
                        !.collected = Append(@, char),
                        !.pc = CollectLoop(futures)]
  /\ UNCHANGED <<gateway_vars, stats_vars, job_vars, ui_vars, pool, cache_vars, log_vars, validation, save_call>>

\* glossary_generator.py:65-78  as_completed(reading_futures) yields a finished future:
\* its reading is appended to the list of its kanji
CollectReadingResult ==
  /\ asm.pc = "collect_readings"
  /\ \E i \in DOMAIN asm.futures :
       /\ asm.futures[i].kind = "reading" /\ asm.futures[i].st = "finished"
       /\ LET f == asm.futures[i]
              futures == [asm.futures EXCEPT ![i].st = "collected"]
              earlier == IF f.char \in DOMAIN asm.reading_results
                         THEN asm.reading_results[f.char] ELSE <<>>
              data == [reading |-> f.reading, type |-> f.type,
                       romaji |-> romaji_answer(f.reading, asm.null_keys)]
          IN  asm' = [asm EXCEPT
                        !.futures = futures,
                        !.reading_results = (f.char :> Append(earlier, data)) @@ @,
                        !.pc = CollectLoop(futures)]
  /\ UNCHANGED <<gateway_vars, stats_vars, job_vars, ui_vars, pool, cache_vars, log_vars, validation, save_call>>

\* mutant of RenderOrder: the characters in the order their results were collected
CollectedOrder(call) == call.collected

\* glossary_generator.py:81  for char in unique_chars
RenderOrder(call) == call.unique_chars

\* glossary_generator.py:80-96  the entries in the order of unique_chars, then the
\* sections
RenderGlossary ==
  /\ asm.pc = "render"
  /\ asm' = [asm EXCEPT
               !.pc = "done",
               !.html = build_final_glossary_html(
                          generate_entries(RenderOrder(asm), 1, asm.api_results,
                                           asm.reading_results, asm.cfg_gen, NoEntries),
                          asm.cfg_gen)]
  /\ UNCHANGED <<gateway_vars, stats_vars, job_vars, ui_vars, pool, cache_vars, log_vars, validation, save_call>>

NextAssemble ==
  \/ generate_glossary_data
  \/ FinishFuture
  \/ CollectKanaResult
  \/ CollectKanjiResult
  \/ CollectReadingResult
  \/ RenderGlossary

SpecAssemble == InitPools /\ [][NextAssemble]_vars

(***************************************************************************)
(* Claims about the assembler (SpecAssemble)                                *)
(***************************************************************************)
\* glossary_generator.py:33, 102-105  a kana character of a category that is enabled
EnabledKana(c) ==
  \/ is_hiragana(c) /\ asm.cfg_gen.include_hiragana
  \/ is_katakana(c) /\ asm.cfg_gen.include_katakana

\* the readings shown in the kanji section
ShownReadings ==
  UNION {UNION {Range(e.readings_html) : e \in Range(asm.html[k].entries)} :
           k \in {i \in DOMAIN asm.html : asm.html[i].section = "kanji_section"}}

SubmissionOrderMarkup ==
  LET u     == extract_unique_japanese_chars(asm.text)
      cfg   == asm.cfg_gen
      kana  == IF cfg.include_hiragana \/ cfg.include_katakana
               THEN {c \in Range(u) : is_hiragana(c) \/ is_katakana(c)} ELSE {}
      kanji == IF cfg.include_kanji THEN {c \in Range(u) : is_kanji(c)} ELSE {}
      api   == [c \in kana \cup kanji |->
                  IF c \in kana
                  THEN [type |-> "kana", romaji |-> romaji_answer(c, asm.null_keys),
                        info |-> NoneInfo]
                  ELSE [type |-> "kanji", romaji |-> None,
                        info |-> kanji_answer(c, asm.null_keys)]]
      Data(type, readings) ==
        [i \in DOMAIN readings |->
           [reading |-> readings[i], type |-> type,
            romaji |-> romaji_answer(readings[i], asm.null_keys)]]
      rr    == [c \in {k \in kanji : cfg.include_romaji} |->
                  Data("Kun", api[c].info.kun_readings) \o Data("On", api[c].info.on_readings)]
  IN  build_final_glossary_html(generate_entries(u, 1, api, rr, cfg, NoEntries), cfg)

\* C22: for one text, one configuration and one answer per lookup key the markup
\* is the same whatever order the lookups finished and were collected in, and
\* whatever the size of the lookup pool: it is the markup of the run that collects
\* every lookup in the order of submission.
C22_MarkupIndependentOfCompletionOrder ==
  asm.pc = "done" => asm.html = SubmissionOrderMarkup

C22_Witness ==
  /\ asm.pc = "done"
  /\ asm.max_workers = 2
  /\ asm.collected = <<26412, 26085>>
  /\ asm.unique_chars = <<26085, 26412>>
  /\ 26085 \in DOMAIN asm.reading_results
  /\ Len(asm.reading_results[26085]) = 3
  /\ asm.reading_results[26085][1].reading = 12363
  /\ asm.reading_results[26085][2].reading = 12491
  /\ Len(asm.html) = 1 /\ Len(asm.html[1].entries) = 2

\* the character of an entry
EntryChar(section, e) == IF section = "kanji_section" THEN e.kanji ELSE e.kana

\* C23: in each section the entries stand in the order in which their characters
\* first occur in the text, whatever order the lookups were collected in.
C23_EntriesInFirstAppearanceOrder ==
  asm.pc = "done" =>
    \A k \in DOMAIN asm.html :
      LET es == asm.html[k].entries
          ch(i) == EntryChar(asm.html[k].section, es[i])
      IN  \A i, j \in DOMAIN es :
            i < j => \E p \in DOMAIN asm.text :
                       asm.text[p] = ch(i) /\ \A q \in 1..p : asm.text[q] # ch(j)

C23_Witness ==
  /\ asm.pc = "done"
  /\ asm.text = <<26412, 26085, 26412>>
  /\ asm.collected = <<26085, 26412>>
  /\ asm.html = <<[section |-> "kanji_section", entries |-> asm.html[1].entries]>>
  /\ asm.html[1].entries[1].kanji = 26412 /\ asm.html[1].entries[2].kanji = 26085

(***************************************************************************)
(* Claims about the batches of a job (SpecJob)                              *)
(***************************************************************************)
RECURSIVE ConcatBatches(_)
ConcatBatches(bs) == IF bs = <<>> THEN <<>> ELSE Head(bs) \o ConcatBatches(Tail(bs))

\* the batches of the job join to the record list; all but the last hold batch_size
\* records, the last between 1 and batch_size
BatchesPartition ==
  LET bs == BatchesOfSize[batch_size]
  IN  /\ ConcatBatches(bs) = note_ids
      /\ \A b \in 1..(Len(bs) - 1) : Len(bs[b]) = batch_size
      /\ Len(bs) >= 1 /\ Len(bs[Len(bs)]) \in 1..batch_size

\* C31: the batches partition the record list of the job into consecutive runs of
\* batch_size records (the last of 1..batch_size); a task is submitted for a record
\* only in the one batch that holds it and only when no task was submitted for it
\* before, and the target field of a record is written at most once in a job.
C31_BatchesPartitionRecords ==
  /\ []BatchesPartition
  /\ [][\A n \in Notes :
          (task'[n].pc = "queued" /\ task[n].pc # "queued") =>
             /\ task[n] = NoTask
             /\ \A b \in 0..(NumBatches - 1) : n \in BatchIds(b) <=> b = batch_index]_vars
  /\ [][\A n \in Notes :
          note_target'[n] # note_target[n] =>
             task[n].written = "no" /\ task'[n].written = "yes"]_vars

C31_Witness ==
  /\ job_pc = "done" /\ ~is_cancelled
  /\ batch_size = 2 /\ NumBatches >= 2
  /\ \A n \in Notes : task[n].pc = "done" /\ task[n].counted = 1
  /\ \E n \in BatchIds(0), m \in BatchIds(NumBatches - 1) :
       task[n].written = "yes" /\ task[m].written = "yes"

\* the number of records in the batches 0..b
RecordsThrough(b) == Cardinality(UNION {BatchIds(i) : i \in 0..b})

\* C32: processed is incremented once per record of every batch that runs, whatever
\* the record's outcome: when a batch has been saved processed is the number of
\* records of the batches run so far, and when the job ends without cancellation
\* processed equals total.
C32_ProcessedCountsEveryRecord ==
  /\ job_pc \in {"flush", "pause"} => processed_notes = RecordsThrough(batch_index)
  /\ job_pc = "loop" => processed_notes = RecordsThrough(batch_index - 1)
  /\ (job_pc = "done" /\ ~is_cancelled) =>
        processed_notes = total_notes /\ total_notes = Len(note_ids)

\* C33: a target field is written only by the orchestrator's save loop, one record
\* at a step, and only when every record task of the batch has resolved: no field is
\* written while a task of the same batch is queued or running.
C33_WritesAfterBatchResolved ==
  [][note_target' # note_target =>
       /\ job_pc = "save"
       /\ \A m \in BatchIds(batch_index) : Resolved(m) /\ task[m].collected
       /\ \E n \in BatchIds(batch_index) :
            \A m \in Notes : note_target'[m] # note_target[m] <=> m = n]_vars

C33_Witness ==
  /\ job_pc = "save"
  /\ Cardinality(BatchIds(batch_index)) >= 2
  /\ \E n, m \in BatchIds(batch_index) :
       /\ task[n].written = "yes" /\ note_target[n] = GLOSS
       /\ task[m].status = "Updated" /\ task[m].counted = 0 /\ note_target[m] = OLD

(***************************************************************************)
(* Batch-level exceptions (SpecAbort): executor.submit raises when the     *)
(* interpreter cannot start a worker thread.                                *)
(***************************************************************************)
\* mutant of ReraiseBatchException: the handler logs and does not raise again, so the
\* task goes on to its return statement
SwallowBatchException ==
  /\ job_pc = "raising"
  /\ \A n \in BatchIds(batch_index) : task[n].pc \in {"none", "done"}
  /\ job_pc' = "return"
  /\ UNCHANGED <<session_vars, pool, gateway_vars, stats_vars, ui_vars, batch_size, batch_index, task,
                 note_target, flushes, cancel_batch>>

\* processor.py:96-100  executor.submit raises after k records of the batch were
\* submitted: the exception leaves the comprehension, and the `with` block waits for
\* the tasks submitted so far before it lets the exception pass
SubmitRaises(k) ==
  /\ job_pc = "submit"
  /\ k \in 0..(Len(BatchesOfSize[batch_size][batch_index + 1]) - 1)
  /\ job_pc' = "raising"
  /\ task' = [n \in Notes |->
                IF n \in {BatchesOfSize[batch_size][batch_index + 1][i] : i \in 1..k}
                THEN [NoTask EXCEPT !.pc = "queued"] ELSE task[n]]
  /\ UNCHANGED <<session_vars, pool, gateway_vars, stats_vars, ui_vars, batch_size, batch_index, note_target,
                 flushes, cancel_batch>>

\* processor.py:96, 126-128  the executor has shut down; except Exception: write_log, raise
ReraiseBatchException ==
  /\ job_pc = "raising"
  /\ \A n \in BatchIds(batch_index) : task[n].pc \in {"none", "done"}
  /\ job_pc' = "failed"
  /\ UNCHANGED <<session_vars, pool, gateway_vars, stats_vars, ui_vars, batch_size, batch_index, task,
                 note_target, flushes, cancel_batch>>

\* processor.py:132-153  _on_batch_glossary_process_complete: future.result() returns
\* or raises, the message shown, and the progress dialog closed
on_batch_glossary_process_complete ==
  /\ job_pc \in {"done", "failed"}
  /\ job_pc' = IF job_pc = "failed" THEN "shown error"
               ELSE IF ~is_cancelled THEN "shown completed" ELSE "shown cancelled"
  /\ dialog_open' = FALSE
  /\ UNCHANGED <<session_vars, pool, gateway_vars, stats_vars, other_job, stats_dialog, batch_size, batch_index, task,
                 note_target, flushes, cancel_batch>>

InitAbort == InitJob /\ note_target = [n \in Notes |-> OLD]

NextAbort ==
  \/ NextJob
  \/ \E k \in 0..(NumNotes - 1) : SubmitRaises(k)
  \/ ReraiseBatchException
  \/ on_batch_glossary_process_complete

SpecAbort == InitAbort /\ [][NextAbort]_vars

\* from the raise on: no batch starts, no task is submitted, no field or counter of
\* processed records changes
AfterBatchException ==
  job_pc \in {"raising", "failed", "shown error"} =>
    /\ job_pc' \in {"raising", "failed", "shown error"}
    /\ batch_index' = batch_index
    /\ note_target' = note_target
    /\ processed_notes' = processed_notes
    /\ \A n \in Notes : task'[n].pc = "queued" => task[n].pc = "queued"

\* the raise reaches the handler, which shows the error; the other two messages are
\* shown for a task that returned
ErrorReported ==
  job_pc' # job_pc =>
    /\ job_pc = "raising" => job_pc' = "failed"
    /\ job_pc = "failed" => job_pc' = "shown error"
    /\ job_pc' = "shown error" => job_pc = "failed"
    /\ job_pc' \in {"shown completed", "shown cancelled"} => job_pc = "done"

\* C34: an exception raised at batch level, outside the record tasks and the write
\* handler, ends the job: from the raise on no batch starts, no record task is
\* submitted and no target field changes (the writes applied before it stay), and the
\* completion handler shows the error message, never the completed or cancelled one.
C34_BatchExceptionAbortsJob ==
  /\ [][AfterBatchException]_vars
  /\ [][ErrorReported]_vars

C34_Witness ==
  /\ job_pc = "shown error"
  /\ batch_index = 1 /\ NumBatches = 3
  /\ is_cancelled
  /\ \E n \in BatchIds(0) : task[n].written = "yes" /\ note_target[n] = GLOSS
  /\ \A n \in BatchIds(2) : task[n] = NoTask

(***************************************************************************)
(* Claims about the rendered readings and sections (SpecAssemble)           *)
(***************************************************************************)
\* the kanji entries of the markup
ShownKanjiEntries ==
  UNION {Range(asm.html[k].entries) :
           k \in {i \in DOMAIN asm.html : asm.html[i].section = "kanji_section"}}

\* C35: in every kanji entry the readings stand in ascending order of (type,
\* reading), so every Kun reading stands before every On reading, and they are the
\* readings collected for the character, whatever order they were collected in.
C35_ReadingsSortedKunBeforeOn ==
  asm.pc = "done" =>
    \A e \in ShownKanjiEntries :
      LET r == e.readings_html
      IN  /\ \A i, j \in DOMAIN r :
                i < j => /\ r[i].type = "On" => r[j].type = "On"
                         /\ r[i].type = r[j].type => r[i].reading <= r[j].reading
          /\ e.kanji \in DOMAIN asm.reading_results =>
               /\ Len(r) = Len(asm.reading_results[e.kanji])
               /\ {r[i].reading : i \in DOMAIN r} =
                    {asm.reading_results[e.kanji][i].reading :
                       i \in DOMAIN asm.reading_results[e.kanji]}

C35_Witness ==
  /\ asm.pc = "done"
  /\ 26085 \in DOMAIN asm.reading_results
  /\ Len(asm.reading_results[26085]) = 3
  /\ asm.reading_results[26085][1].type = "On"
  /\ asm.reading_results[26085][2].reading = 12402
  /\ \E e \in ShownKanjiEntries :
       /\ e.kanji = 26085
       /\ Len(e.readings_html) = 3
       /\ e.readings_html[1].reading = 12363 /\ e.readings_html[3].type = "On"

\* the entries rendered by the call, by section
RenderedEntries(section) ==
  LET entries == generate_entries(asm.unique_chars, 1, asm.api_results,
                                  asm.reading_results, asm.cfg_gen, NoEntries)
  IN  CASE section = "hiragana_section" -> entries.hiragana_entries
        [] section = "katakana_section" -> entries.katakana_entries
        [] section = "kanji_section"    -> entries.kanji_entries

SectionEnabled(section) ==
  CASE section = "hiragana_section" -> asm.cfg_gen.include_hiragana
    [] section = "katakana_section" -> asm.cfg_gen.include_katakana
    [] section = "kanji_section"    -> asm.cfg_gen.include_kanji

SectionShown(section) == SectionEnabled(section) /\ RenderedEntries(section) # <<>>

\* C36: the markup is the hiragana, katakana and kanji sections in that order, each
\* present exactly when its category is enabled and it has at least one entry and
\* holding those entries; it is empty when no section qualifies.
C36_SectionsInFixedOrder ==
  asm.pc = "done" =>
    LET want == SelectSeq(<<"hiragana_section", "katakana_section", "kanji_section">>,
                          SectionShown)
    IN  /\ Len(asm.html) = Len(want)
        /\ \A i \in DOMAIN want :
             /\ asm.html[i].section = want[i]
             /\ asm.html[i].entries = RenderedEntries(want[i])

\* the text has the kanji first and a katakana whose lookup is not answered: the
\* hiragana section stands before the kanji section and there is no katakana section
C36_Witness ==
  /\ asm.pc = "done"
  /\ asm.text = <<26085, 12459, 12354>>
  /\ asm.null_keys = {12459}
  /\ Len(asm.html) = 2
  /\ asm.html[1].section = "hiragana_section" /\ asm.html[2].section = "kanji_section"

\* every lookup of the call unanswered or disabled: the empty markup
C36_WitnessEmpty ==
  /\ asm.pc = "done"
  /\ asm.text = <<12459>>
  /\ asm.null_keys = {12459}
  /\ asm.html = <<>>

(***************************************************************************)
(* The size test of a flush (SpecFlush): one call of save_api_cache under   *)
(* every setting, file size and failure of the write.                       *)
(***************************************************************************)
MB == 1024 * 1024

\* config['cache']['cache_max_size_mb']: the spin box allows 0..1000 (dialogs.py:230)
MaxSizesMb == {0, 1, 2, 3, DefaultCacheMaxSizeMb, 1000}

\* os.path.getsize of the written file: an empty mapping ("{}"), and sizes at and
\* around the limits
FileSizesBytes ==
  {2} \cup UNION {{m * MB - 1, m * MB, m * MB + 1} : m \in MaxSizesMb \ {0}}

\* mutant of SizeWarningDue: a limit of 0 is a limit like any other
SizeWarningAlsoAtZero(file_size_bytes, max_size_mb) == file_size_bytes > max_size_mb * MB

\* cache.py:56-60  file_size_mb = file_size_bytes / (1024 * 1024);
\* if max_size_mb > 0 and file_size_mb > max_size_mb.  The division by a power of
\* two is exact, so the test compares the bytes with the limit in bytes.
SizeWarningDue(file_size_bytes, max_size_mb) ==
  max_size_mb > 0 /\ file_size_bytes > max_size_mb * MB

\* cache.py:43-66  save_api_cache.  The write can raise (open or json.dump); the file
\* can be gone again when its size is asked for (clear_api_cache removes it from the
\* main thread), before os.path.exists or between it and os.path.getsize.
save_api_cache ==
  /\ save_call.pc = "idle"
  /\ \E enabled \in BOOLEAN, max_size_mb \in MaxSizesMb, file_size_bytes \in FileSizesBytes,
        outcome \in {"written", "write raises", "removed before exists",
                     "removed before getsize"} :
       save_call' =
         [pc |-> "returned", cache_enabled |-> enabled, cache_max_size_mb |-> max_size_mb,
          file |-> IF ~enabled THEN "as before"
                   ELSE IF outcome = "written" THEN "mapping"
                   ELSE IF outcome = "write raises" THEN "partial"
                   ELSE "removed",
          file_size_bytes |-> IF enabled /\ outcome = "written" THEN file_size_bytes ELSE 0,
          logged |-> IF ~enabled THEN <<"not saving">>
                     ELSE IF outcome = "write raises" THEN <<"error">>
                     ELSE IF outcome = "removed before exists" THEN <<"saved">>
                     ELSE IF outcome = "removed before getsize" THEN <<"saved", "error">>
                     ELSE IF SizeWarningDue(file_size_bytes, max_size_mb)
                     THEN <<"saved", "warning">>
                     ELSE <<"saved">>]
  /\ UNCHANGED <<gateway_vars, stats_vars, job_vars, ui_vars, pool, cache_vars, log_vars,
                 validation, asm>>

\* the next call
NextSaveCall ==
  /\ save_call.pc = "returned"
  /\ save_call' = NoSave
  /\ UNCHANGED <<gateway_vars, stats_vars, job_vars, ui_vars, pool, cache_vars, log_vars,
                 validation, asm>>

NextFlush ==
  \/ save_api_cache
  \/ NextSaveCall

SpecFlush == InitPools /\ [][NextFlush]_vars

Warned == \E i \in DOMAIN save_call.logged : save_call.logged[i] = "warning"

\* C37: a call of save_api_cache that wrote the file logs the size warning exactly
\* when cache_max_size_mb > 0 and the file is larger than that many megabytes; no
\* call logs it with cache_max_size_mb = 0; and a call that logs it has written the
\* file, reported the write as done before the warning, and leaves the file written.
C37_SizeWarningIffOverLimit ==
  save_call.pc = "returned" =>
    /\ save_call.file = "mapping" =>
         (Warned <=> /\ save_call.cache_max_size_mb > 0
                     /\ save_call.file_size_bytes > save_call.cache_max_size_mb * MB)
    /\ save_call.cache_max_size_mb = 0 => ~Warned
    /\ Warned => save_call.file = "mapping" /\ save_call.logged = <<"saved", "warning">>

C37_Witness ==
  /\ save_call.pc = "returned"
  /\ save_call.cache_max_size_mb = 1
  /\ save_call.file_size_bytes = MB + 1
  /\ save_call.file = "mapping"
  /\ Warned

\* a file of over ten megabytes with the limit at 0: no warning
C37_WitnessNoLimit ==
  /\ save_call.pc = "returned"
  /\ save_call.cache_max_size_mb = 0
  /\ save_call.file_size_bytes = DefaultCacheMaxSizeMb * MB + 1
  /\ save_call.file = "mapping"
  /\ ~Warned

(***************************************************************************)
(* Termination (SpecPoolsFair): the job with the lookup executors, under    *)
(* fair scheduling of the program's threads.                                *)
(***************************************************************************)
\* a step of the background task, of a record task or of a lookup worker; a running
\* lookup returns or fails in finite time (FinishLookup)
ProgramStep ==
  \/ StartJob
  \/ NextBatch
  \/ SubmitBatch
  \/ \E n \in Notes : TaskReadNote(n)
  \/ \E n \in Notes : OpenLookupPool(n)
  \/ \E n \in Notes : StartLookup(n)
  \/ \E n \in Notes : FinishLookup(n)
  \/ \E n \in Notes : CollectKanji(n)
  \/ \E n \in Notes : CloseLookupPool(n)
  \/ \E n \in Notes : TaskGenerate(n) /\ pool[n].phase = "closed"
  \/ \E n \in Notes : TaskStoreEmpty(n)
  \/ \E n \in Notes : TaskStoreUnchanged(n)
  \/ \E n \in Notes : TaskStoreError(n)
  \/ CollectResults
  \/ \E n \in Notes : SaveResult(n)
  \/ FlushAfterBatch
  \/ PauseBetweenBatches
  \/ NoPauseAfterBatch
  \/ ReturnJob

\* the threads are scheduled: while some thread of the program can take a step, one
\* is taken; the user's steps (the command, the cancel button) come or do not
\* the batch sizes of the fair specification: a batch that fits the record pool's
\* workers and one that has to queue for them
FairBatchSizes == {2, 3}

InitPoolsFair ==
  /\ InitJob
  /\ batch_size \in FairBatchSizes
  /\ note_target = [n \in Notes |-> OLD]

NextPoolsFair ==
  \/ NextPools
  \/ PauseBetweenBatches

SpecPoolsFair == InitPoolsFair /\ [][NextPoolsFair]_vars /\ WF_vars(ProgramStep)

\* C38: every started job ends: from the start of the background task on, the task
\* reaches its return, with every record task resolved and every lookup executor
\* shut down, whatever the texts, the answers of the lookups and the user's steps.
C38_StartedJobFinishes ==
  (job_pc = "init") ~>
     (/\ job_pc = "done"
      /\ \A n \in Notes : task[n].pc \in {"none", "done"} /\ pool[n].phase # "open")

\* a finished job in which a record's readings were looked up after its kanji-info
\* result had arrived
C38_Witness ==
  /\ job_pc = "done"
  /\ ~is_cancelled
  /\ \A n \in Notes : task[n].pc = "done"
  /\ \A n \in Notes : task[n].status # "Empty" => pool[n].phase = "closed"
  /\ \E n \in Notes : task[n].written = "yes"

\* the readings of a kanji queued and running after its kanji-info result was collected
C38_WitnessReadings ==
  \E n \in Notes : pool[n].phase = "open" /\ pool[n].qr > 0 /\ pool[n].rr > 0

(***************************************************************************)
(* Claims about cancellation and the progress dialog                        *)
(***************************************************************************)
\* C39: a cancellation requested while the job is in flight, its dialog shown, stays
\* requested for the rest of the job (no step of the job takes the flag back, the
\* reset of start_processing included), and the loop head that finds it leaves the
\* loop.
C39_CancellationNeverLost ==
  [][(is_cancelled /\ dialog_open /\ JobInFlight) =>
       /\ is_cancelled'
       /\ (job_pc = "loop" /\ job_pc' # job_pc) => job_pc' = "return"]_vars

(***************************************************************************)
(* The progress poller over several jobs (SpecPoll): a job runs, its        *)
(* completion handler shows the message, and the command is given again.    *)
(***************************************************************************)
\* dialogs.py:341-342, 390-429  the timer of the progress dialog fires:
\* update_stats_display
update_stats_display ==
  /\ dialog_open
  /\ stats_dialog.timer_active
  /\ stats_dialog' = UpdatedDisplay(stats_dialog, total_notes, processed_notes, is_cancelled)
  /\ stats_dialog' # stats_dialog
  /\ UNCHANGED <<session_vars, pool, gateway_vars, stats_vars, job_vars, dialog_open, other_job>>

\* processor.py:146-153  the message is dismissed and the handler ends: the main
\* window is back, the background task and its locals are gone, the statistics stay
ReturnToMenu ==
  /\ job_pc \in {"shown completed", "shown cancelled", "shown error"}
  /\ job_pc' = "idle"
  /\ batch_index' = 0
  /\ task' = [n \in Notes |-> NoTask]
  /\ flushes' = 0
  /\ cancel_batch' = {}
  /\ UNCHANGED <<session_vars, pool, gateway_vars, stats_vars, ui_vars, batch_size, note_target>>

NextPoll ==
  \/ NextJob
  \/ update_stats_display
  \/ on_batch_glossary_process_complete
  \/ ReturnToMenu

SpecPoll == InitAbort /\ [][NextPoll]_vars

\* the job the dialog was opened for has counted every one of its records
CurrentJobProcessedAll ==
  /\ job_pc \notin {"idle", "init"}
  /\ \A n \in Notes : task[n].counted > 0

\* C40: the poller finds the job finished (stops its timer, disables the cancel
\* controls) only when the job the dialog belongs to has processed all of its
\* records or has been cancelled, at the creation of the dialog as at every tick of
\* its timer.
C40_TerminalOnlyForCurrentJob ==
  [][(dialog_open' /\ stats_dialog'.found # "running" /\ stats_dialog' # stats_dialog) =>
       (is_cancelled' \/ CurrentJobProcessedAll')]_vars

=========================================================================
